---------------------------- MODULE Spec2Model ----------------------------
(***************************************************************************)
(* AI-ColorTune backend: the parameter sanitizer and parameter model of     *)
(* app/core/color_params.py, the image operations of app/core/image_ops.py  *)
(* and the pipeline of app/services/image_processor.py.                     *)
(*                                                                          *)
(* Numbers of the parameter dicts are kept in HALVES (the integer n stands  *)
(* for the Python number n/2), so that 0.5, 25.5 or 255.5 are values of the *)
(* model and int() truncation is not the identity.                          *)
(***************************************************************************)
EXTENDS Integers, Sequences, FiniteSets, TLC

VARIABLES
    raw,      \* the parsed-JSON dict handed to sanitize_ai_params (kept for reference)
    san,      \* the same dict object after sanitize_ai_params worked on it in place
    sanSt,    \* "init" | "returned" | "raised": how the call of sanitize_ai_params ended
    sanExc,   \* the exception class it raised, "" when none
    valSt,    \* "none" | "ok" | "error": outcome of ColorParams(**sanitized)
    valErrs,  \* the kinds of validation error reported: subset of {"range", "type"}
    image,    \* the image handed to an operation or to apply_params
    opName,   \* the image operation that was called on image, "none" before the call
    opArg,    \* its parameter(s)
    opOut,    \* the image it returned
    opExc,    \* the exception it raised, "" when none
    params,   \* the ColorParams handed to apply_params
    pc,       \* where the running call of apply_params stands
    result,   \* its local variable result
    stages,   \* the stage groups it has run so far, each with the image it received
    pipeExc,  \* the exception that ended it, "" when none
    outcomes, \* how the finished calls of apply_params ended, oldest first
    loc,      \* the running call of apply_local_adjustments: its arguments and locals
    ext,      \* an AI response and the call that works on it (services/ai_provider.py)
    prev,     \* the running call of generate_preview: its arguments and locals
    cfg,      \* the module state of api/ai_config.py and the responses it has sent
    sel,      \* the rows of the options of the rounds and the running selection call
    gt,       \* the grading tasks stored and the calls of GradingService on them
    sty,      \* a style session, its rounds and the calls of analyze_preferences
    prov      \* the provider configuration and the requests that read and write it

sanVars  == <<raw, san, sanSt, sanExc, valSt, valErrs>>
opVars   == <<image, opName, opArg, opOut, opExc>>
pipeVars == <<params, pc, result, stages, pipeExc, outcomes>>
svcVars  == <<gt, sty, prov>>
restVars == <<loc, ext, prev, cfg, sel, svcVars>>

---------------------------------------------------------------------------
(* JSON values: <<kind, payload>>.                                         *)

Num(n)    == <<"num", n>>       \* an int or a finite float of value n/2 (bool included)
NaN       == <<"nan", 0>>       \* float('nan'), which json.loads accepts
Big       == <<"big", 0>>       \* a positive int too large for float()
NumStr(n) == <<"numstr", n>>    \* a str that float() parses to n/2, e.g. "5.0"
Str       == <<"str", 0>>       \* a str that is no number, e.g. "high"
Null      == <<"null", 0>>
Dict(f)   == <<"dict", f>>      \* f: a function from keys to values
List(s)   == <<"list", s>>      \* s: a sequence of values

Kind(x) == x[1]
Pay(x)  == x[2]

EmptyDict == [x \in {} |-> Null]

IsDict(x) == Kind(x) = "dict"
IsList(x) == Kind(x) = "list"
\* isinstance(x, (int, float))
IsNumber(x) == Kind(x) \in {"num", "nan", "big"}

Has(d, key) == key \in DOMAIN d
\* d[key] = val on a Python dict
Put(d, key, val) == [x \in (DOMAIN d) \cup {key} |-> IF x = key THEN val ELSE d[x]]

Min(a, b) == IF a < b THEN a ELSE b
Max(a, b) == IF a > b THEN a ELSE b

\* float(x): the value, or the exception it raises
FloatOf(x) ==
    CASE Kind(x) = "num"    -> [ok |-> TRUE,  val |-> x,           exc |-> ""]
      [] Kind(x) = "nan"    -> [ok |-> TRUE,  val |-> x,           exc |-> ""]
      [] Kind(x) = "numstr" -> [ok |-> TRUE,  val |-> Num(Pay(x)), exc |-> ""]
      [] Kind(x) = "big"    -> [ok |-> FALSE, val |-> x, exc |-> "OverflowError"]
      [] Kind(x) = "str"    -> [ok |-> FALSE, val |-> x, exc |-> "ValueError"]
      [] OTHER              -> [ok |-> FALSE, val |-> x, exc |-> "TypeError"]

\* _clamp(value, lo, hi) = max(lo, min(hi, value)) on a float. min(hi, nan) is hi,
\* because nan < hi is False and min keeps its first argument.
ClampBoundsSwapped(x, lo, hi) ==
    IF Kind(x) = "nan" THEN Num(lo) ELSE Num(Max(hi, Min(lo, Pay(x))))

Clamp(x, lo, hi) ==
    IF Kind(x) = "nan" THEN Num(hi) ELSE Num(Max(lo, Min(hi, Pay(x))))

---------------------------------------------------------------------------
(* sanitize_ai_params. A run of it is a record                              *)
(*   [status: "ok" | "raised", d: the dict worked on, exc: exception class] *)
(* and each block of the function maps a run to a run; a raised run is      *)
(* passed through unchanged (the exception left the function).              *)

\* _CLAMP_RULES, in dict order; lo and hi in halves.
CLAMP_RULES == <<
    [sec |-> "basic",   key |-> "exposure",       lo |-> -6,   hi |-> 6],
    [sec |-> "basic",   key |-> "contrast",       lo |-> -200, hi |-> 200],
    [sec |-> "basic",   key |-> "highlights",     lo |-> -200, hi |-> 200],
    [sec |-> "basic",   key |-> "shadows",        lo |-> -200, hi |-> 200],
    [sec |-> "basic",   key |-> "whites",         lo |-> -200, hi |-> 200],
    [sec |-> "basic",   key |-> "blacks",         lo |-> -200, hi |-> 200],
    [sec |-> "color",   key |-> "temperature",    lo |-> 4000, hi |-> 24000],
    [sec |-> "color",   key |-> "tint",           lo |-> -200, hi |-> 200],
    [sec |-> "color",   key |-> "vibrance",       lo |-> -200, hi |-> 200],
    [sec |-> "color",   key |-> "saturation",     lo |-> -200, hi |-> 200],
    [sec |-> "effects", key |-> "clarity",        lo |-> -200, hi |-> 200],
    [sec |-> "effects", key |-> "dehaze",         lo |-> -200, hi |-> 200],
    [sec |-> "effects", key |-> "vignette",       lo |-> -200, hi |-> 200],
    [sec |-> "effects", key |-> "grain",          lo |-> 0,    hi |-> 200],
    [sec |-> "effects", key |-> "texture",        lo |-> -200, hi |-> 200],
    [sec |-> "effects", key |-> "fade",           lo |-> 0,    hi |-> 200],
    [sec |-> "effects", key |-> "sharpening",     lo |-> 0,    hi |-> 200],
    [sec |-> "effects", key |-> "sharpen_radius", lo |-> 1,    hi |-> 10],
    [sec |-> "split_toning", key |-> "balance",   lo |-> -200, hi |-> 200] >>

OkRun(d)          == [status |-> "ok", d |-> d, exc |-> ""]
RaisedRun(d, exc) == [status |-> "raised", d |-> d, exc |-> exc]

\* One iteration of the loop over _CLAMP_RULES (lines 127-137): walk raw[sec], and
\* when raw[sec] is a dict holding key with an int/float value, clamp float(value).
ApplyRule(run, rule) ==
    IF run.status = "raised" THEN run
    ELSE IF ~Has(run.d, rule.sec) THEN run
    ELSE LET obj == run.d[rule.sec] IN
         IF ~(IsDict(obj) /\ Has(Pay(obj), rule.key) /\ IsNumber(Pay(obj)[rule.key]))
         THEN run
         ELSE LET fl == FloatOf(Pay(obj)[rule.key]) IN
              IF ~fl.ok THEN RaisedRun(run.d, fl.exc)
              ELSE OkRun(Put(run.d, rule.sec,
                         Dict(Put(Pay(obj), rule.key, Clamp(fl.val, rule.lo, rule.hi)))))

RECURSIVE ApplyRules(_, _)
ApplyRules(run, i) ==
    IF i > Len(CLAMP_RULES) THEN run
    ELSE ApplyRules(ApplyRule(run, CLAMP_RULES[i]), i + 1)

\* if key in ch: ch[key] = _clamp(float(ch[key]), lo, hi), on the dict ch of a run
ClampKey(run, key, lo, hi) ==
    IF run.status = "raised" \/ ~Has(run.d, key) THEN run
    ELSE LET fl == FloatOf(run.d[key]) IN
         IF ~fl.ok THEN RaisedRun(run.d, fl.exc)
         ELSE OkRun(Put(run.d, key, Clamp(fl.val, lo, hi)))

\* effects["grain"] = 0 (line 142)
ForceGrainKeepsInput(effects) == effects

ForceGrain(effects) == Put(effects, "grain", Num(0))

\* the quality-safe caps of lines 144-147
QualityCapsAreModelBounds(run) ==
    ClampKey(ClampKey(run, "clarity", -200, 200), "dehaze", -200, 200)

QualityCaps(run) ==
    ClampKey(ClampKey(run, "clarity", -60, 60), "dehaze", -40, 50)

\* lines 140-147
EffectsBlock(run) ==
    IF run.status = "raised" \/ ~Has(run.d, "effects") \/ ~IsDict(run.d["effects"])
    THEN run
    ELSE LET r == QualityCaps(OkRun(ForceGrain(Pay(run.d["effects"])))) IN
         [status |-> r.status, d |-> Put(run.d, "effects", Dict(r.d)), exc |-> r.exc]

\* the body of the loop over hsl.values() for one channel (lines 153-159)
HslChannel(run) ==
    ClampKey(ClampKey(ClampKey(run, "hue", -360, 360),
                      "saturation", -200, 200), "luminance", -200, 200)

\* the body of the loop over the split-toning zones for one zone (lines 166-170)
SplitChannel(run) ==
    ClampKey(ClampKey(run, "hue", 0, 720), "saturation", 0, 200)

\* Visit the keys `order` of the dict of a run (those it holds), and apply Body to
\* each value that is a dict. Python visits hsl.values() in insertion order; the
\* model visits the keys in the order of HslOrder, which only decides which of the
\* earlier channels are already clamped when a later one raises.
RECURSIVE VisitChannels(_, _, _, _)
VisitChannels(run, order, i, isHsl) ==
    IF i > Len(order) \/ run.status = "raised" THEN run
    ELSE LET key == order[i] IN
         IF ~(Has(run.d, key) /\ IsDict(run.d[key]))
         THEN VisitChannels(run, order, i + 1, isHsl)
         ELSE LET r == IF isHsl THEN HslChannel(OkRun(Pay(run.d[key])))
                                ELSE SplitChannel(OkRun(Pay(run.d[key]))) IN
              VisitChannels([status |-> r.status,
                             d |-> Put(run.d, key, Dict(r.d)),
                             exc |-> r.exc], order, i + 1, isHsl)

HslOrder   == <<"red", "orange", "yellow", "green", "aqua", "blue", "purple", "magenta">>
SplitOrder == <<"highlights", "midtones", "shadows">>

\* lines 150-159 and 162-170
ChannelsBlock(run, sec, order, isHsl) ==
    IF run.status = "raised" \/ ~Has(run.d, sec) \/ ~IsDict(run.d[sec]) THEN run
    ELSE LET r == VisitChannels(OkRun(Pay(run.d[sec])), order, 1, isHsl) IN
         [status |-> r.status, d |-> Put(run.d, sec, Dict(r.d)), exc |-> r.exc]

\* _clamp(p[i], 0, 255) of line 179: no float() here, so max/min compare the raw
\* value with the ints: a str, None, list or dict raises TypeError, nan gives hi,
\* and a huge int is compared as an int.
ClampCoord(x) ==
    CASE Kind(x) = "num" -> [ok |-> TRUE, val |-> Clamp(x, 0, 510), exc |-> ""]
      [] Kind(x) = "nan" -> [ok |-> TRUE, val |-> Num(510), exc |-> ""]
      [] Kind(x) = "big" -> [ok |-> TRUE, val |-> Num(510), exc |-> ""]
      [] OTHER           -> [ok |-> FALSE, val |-> x, exc |-> "TypeError"]

\* int(x) on a clamped coordinate: truncation (the value is >= 0)
IntOfKeepsFraction(x) == x

IntOf(x) == Num(2 * (Pay(x) \div 2))

\* the filter of line 181
KeepsPoint(p) == IsList(p) /\ Len(Pay(p)) >= 2

\* The list comprehension of lines 178-182 over the points pts[i..]: the new list,
\* or the exception of the first kept point whose coordinate cannot be compared.
RECURSIVE CurvePoints(_, _)
CurvePoints(pts, i) ==
    IF i > Len(pts) THEN [ok |-> TRUE, val |-> <<>>, exc |-> ""]
    ELSE IF ~KeepsPoint(pts[i]) THEN CurvePoints(pts, i + 1)
    ELSE LET x == ClampCoord(Pay(pts[i])[1])
             y == ClampCoord(Pay(pts[i])[2]) IN
         IF ~x.ok THEN [ok |-> FALSE, val |-> <<>>, exc |-> x.exc]
         ELSE IF ~y.ok THEN [ok |-> FALSE, val |-> <<>>, exc |-> y.exc]
         ELSE LET rest == CurvePoints(pts, i + 1) IN
              IF ~rest.ok THEN rest
              ELSE [ok |-> TRUE,
                    val |-> <<List(<<IntOf(x.val), IntOf(y.val)>>)>> \o rest.val,
                    exc |-> ""]

CurveKeys == <<"points", "red", "green", "blue">>

\* the loop of lines 175-182 over the curve keys of the dict tc
RECURSIVE CurveLoop(_, _)
CurveLoop(run, i) ==
    IF i > Len(CurveKeys) \/ run.status = "raised" THEN run
    ELSE LET key == CurveKeys[i] IN
         IF ~(Has(run.d, key) /\ IsList(run.d[key])) THEN CurveLoop(run, i + 1)
         ELSE LET r == CurvePoints(Pay(run.d[key]), 1) IN
              IF ~r.ok THEN RaisedRun(run.d, r.exc)
              ELSE CurveLoop(OkRun(Put(run.d, key, List(r.val))), i + 1)

\* lines 173-182
ToneCurveBlock(run) ==
    IF run.status = "raised" \/ ~Has(run.d, "tone_curve") \/ ~IsDict(run.d["tone_curve"])
    THEN run
    ELSE LET r == CurveLoop(OkRun(Pay(run.d["tone_curve"])), 1) IN
         [status |-> r.status, d |-> Put(run.d, "tone_curve", Dict(r.d)), exc |-> r.exc]

\* sanitize_ai_params(raw): the run after all its blocks, on the top-level dict d
sanitize_ai_params(d) ==
    ToneCurveBlock(
      ChannelsBlock(
        ChannelsBlock(
          EffectsBlock(ApplyRules(OkRun(d), 1)),
          "hsl", HslOrder, TRUE),
        "split_toning", SplitOrder, FALSE))

---------------------------------------------------------------------------
(* ColorParams built from the dict d: pydantic validation of its fields.    *)
(* The result                                                               *)
(* is the set of error kinds of the ValidationError: "range" for a violated *)
(* ge/le bound, "type" for a value of the wrong shape; {} when it succeeds. *)

\* A float field with Field(ge=lo, le=hi). In pydantic's lax mode a str that
\* parses as a float is converted and then range-checked; nan fails any bound.
FloatField(x, lo, hi) ==
    CASE Kind(x) \in {"num", "numstr"} ->
             IF lo <= Pay(x) /\ Pay(x) <= hi THEN {} ELSE {"range"}
      [] Kind(x) = "nan" -> {"range"}
      [] OTHER -> {"type"}

\* The declared fields of a sub-model, given as a set of [key, lo, hi]; keys that
\* are not declared are ignored, missing keys take their default.
SubModel(x, fields) ==
    IF ~IsDict(x) THEN {"type"}
    ELSE UNION {FloatField(Pay(x)[fld.key], fld.lo, fld.hi) :
                    fld \in {g \in fields : Has(Pay(x), g.key)}}

\* BasicParams, ColorAdjustParams (lines 7-20)
BasicFields == {[key |-> "exposure", lo |-> -6, hi |-> 6]} \cup
    {[key |-> k, lo |-> -200, hi |-> 200] :
        k \in {"contrast", "highlights", "shadows", "whites", "blacks"}}

ColorFields == {[key |-> "temperature", lo |-> 4000, hi |-> 24000]} \cup
    {[key |-> k, lo |-> -200, hi |-> 200] : k \in {"tint", "vibrance", "saturation"}}

\* EffectsParams (lines 62-70)
EffectsFields ==
    {[key |-> k, lo |-> -200, hi |-> 200] : k \in {"clarity", "dehaze", "vignette", "texture"}}
    \cup {[key |-> k, lo |-> 0, hi |-> 200] : k \in {"grain", "fade", "sharpening"}}
    \cup {[key |-> "sharpen_radius", lo |-> 1, hi |-> 10]}

\* HSLChannel, SplitToneChannel (lines 33-36, 50-52)
HSLChannelFields == {[key |-> "hue", lo |-> -360, hi |-> 360],
                     [key |-> "saturation", lo |-> -200, hi |-> 200],
                     [key |-> "luminance", lo |-> -200, hi |-> 200]}

SplitToneChannelFields == {[key |-> "hue", lo |-> 0, hi |-> 720],
                           [key |-> "saturation", lo |-> 0, hi |-> 200]}

\* HSLParams (lines 39-47): eight HSLChannel fields
HSLParams(x) ==
    IF ~IsDict(x) THEN {"type"}
    ELSE UNION {SubModel(Pay(x)[c], HSLChannelFields) :
                    c \in {k \in DOMAIN Pay(x) : \E i \in 1..Len(HslOrder) : HslOrder[i] = k}}

\* SplitToningParams (lines 55-59)
SplitToningParams(x) ==
    IF ~IsDict(x) THEN {"type"}
    ELSE UNION ({SubModel(Pay(x)[c], SplitToneChannelFields) :
                    c \in {k \in DOMAIN Pay(x) : \E i \in 1..Len(SplitOrder) : SplitOrder[i] = k}}
                \cup {IF Has(Pay(x), "balance")
                      THEN FloatField(Pay(x)["balance"], -200, 200) ELSE {}})

\* list[list[int]]: every point a list, every coordinate an int (a float with a
\* fractional part is refused); no bound and no length is declared.
IntCoord(x) == Kind(x) \in {"num", "numstr"} /\ Pay(x) % 2 = 0

CurveField(x, optional) ==
    IF optional /\ Kind(x) = "null" THEN {}
    ELSE IF IsList(x) /\ \A i \in 1..Len(Pay(x)) :
                IsList(Pay(x)[i]) /\ \A j \in 1..Len(Pay(Pay(x)[i])) : IntCoord(Pay(Pay(x)[i])[j])
    THEN {} ELSE {"type"}

\* ToneCurveParams (lines 23-30)
ToneCurveParams(x) ==
    IF ~IsDict(x) THEN {"type"}
    ELSE UNION {CurveField(Pay(x)[k], k # "points") :
                    k \in {c \in DOMAIN Pay(x) : \E i \in 1..Len(CurveKeys) : CurveKeys[i] = c}}

\* ColorParams (lines 73-81) built from the keyword arguments d
ColorParams(d) ==
    UNION {
      IF Has(d, "basic") THEN SubModel(d["basic"], BasicFields) ELSE {},
      IF Has(d, "color") THEN SubModel(d["color"], ColorFields) ELSE {},
      IF Has(d, "effects") THEN SubModel(d["effects"], EffectsFields) ELSE {},
      IF Has(d, "hsl") THEN HSLParams(d["hsl"]) ELSE {},
      IF Has(d, "split_toning") THEN SplitToningParams(d["split_toning"]) ELSE {},
      IF Has(d, "tone_curve") THEN ToneCurveParams(d["tone_curve"]) ELSE {} }

---------------------------------------------------------------------------
(* The parameter dicts an AI response can hold, drawn from bounded sets.    *)

Margin      == 1   \* numbers up to this many halves around every bound of the code
MaxPts      == 3   \* points of a tone-curve array
MaxPointLen == 3   \* elements of one tone-curve point

\* every lo and hi of the code, in halves
BoundHalves == {CLAMP_RULES[i].lo : i \in 1..Len(CLAMP_RULES)}
          \cup {CLAMP_RULES[i].hi : i \in 1..Len(CLAMP_RULES)}
          \cup {-60, 60, -40, 50, -360, 360, 720, 510}

NumVals == {b + m : b \in BoundHalves, m \in (-Margin)..Margin}

LeafVals == {Num(n) : n \in NumVals} \cup {NumStr(n) : n \in NumVals}
            \cup {NaN, Big, Str, Null, List(<<>>), Dict(EmptyDict)}

SmallVals == {Num(0), Num(201), Num(-61), Num(45), NumStr(180), Str, Null, Big}

One(k, v) == [x \in {k} |-> v]
Two(k1, v1, k2, v2) == [x \in {k1, k2} |-> IF x = k1 THEN v1 ELSE v2]

SeqsUpTo(S, n) == UNION {[1..k -> S] : k \in 0..n}

\* one declared field holding any value
FieldRaws ==
    {One(CLAMP_RULES[i].sec, Dict(One(CLAMP_RULES[i].key, v))) :
        i \in 1..Len(CLAMP_RULES), v \in LeafVals}

\* an effects mapping with or without grain
EffectsRaws ==
    {One("effects", Dict(Two("grain", g, "clarity", c))) : g \in SmallVals, c \in SmallVals}
    \cup {One("effects", Dict(Two("clarity", c, "dehaze", e))) : c \in SmallVals, e \in SmallVals}
    \cup {One("effects", Dict(EmptyDict))}

\* a section that is no mapping
SectionRaws ==
    {One(sec, v) : sec \in {"basic", "color", "effects", "hsl", "split_toning", "tone_curve"},
                   v \in {Null, Str, Num(2), List(<<>>)}}

HslRaws ==
    {One("hsl", Dict(One(ch, Dict(One(comp, v))))) :
        ch \in {"red", "blue"}, comp \in {"hue", "saturation", "luminance"}, v \in LeafVals}
    \cup {One("hsl", Dict(Two("red", Dict(One("hue", a)), "blue", Dict(One("hue", b))))) :
        a \in SmallVals, b \in SmallVals}
    \cup {One("hsl", Dict(One("red", v))) : v \in {Null, Str, Num(2)}}

SplitRaws ==
    {One("split_toning", Dict(One(zone, Dict(One(comp, v))))) :
        zone \in {"highlights", "midtones", "shadows"}, comp \in {"hue", "saturation"},
        v \in LeafVals}
    \cup {One("split_toning", Dict(One("midtones", v))) : v \in {Null, Str, Num(2)}}

CoordWide == {Num(n) : n \in {-2, 0, 3, 510, 511, 600}}
             \cup {NaN, Big, NumStr(4), Str, Null, List(<<>>)}

CoordSmall == {Num(3), Num(601), Str}

\* points of several shapes for the arrays of more than one point: not a list, too
\* short, a pair, a pair that needs clamping, a triple, a pair that cannot be compared
MultiPoints == {Null, List(<<Num(3)>>), List(<<Num(3), Num(601)>>),
                List(<<Num(-2), Num(5)>>), List(<<Num(8), Num(3), Num(601)>>),
                List(<<Str, Num(3)>>)}

CurveRaws ==
    {One("tone_curve", Dict(One(k, List(<<List(<<a, b>>)>>)))) :
        k \in {"points", "red", "green", "blue"}, a \in CoordWide, b \in CoordWide}
    \cup {One("tone_curve", Dict(One(k, List(<<List(p)>>)))) :
        k \in {"points", "green"}, p \in SeqsUpTo(CoordSmall, MaxPointLen)}
    \cup {One("tone_curve", Dict(One(k, List(pts)))) :
        k \in {"points", "blue"}, pts \in SeqsUpTo(MultiPoints, MaxPts)}
    \cup {One("tone_curve", Dict(One(k, v))) : k \in {"points", "red"}, v \in {Null, Str, Num(2)}}

RawInputs == {EmptyDict} \cup FieldRaws \cup EffectsRaws \cup SectionRaws
             \cup HslRaws \cup SplitRaws \cup CurveRaws

---------------------------------------------------------------------------
(* The two steps of StyleService.generate_options_for_round, line 121:      *)
(*   params = ColorParams(<keywords of> sanitize_ai_params(parameters))     *)

\* the values of the variables a specification does not use
NoImage == [h |-> 0, w |-> 0, px |-> <<>>]

SanIdle ==
    /\ raw = EmptyDict /\ san = EmptyDict /\ sanSt = "idle" /\ sanExc = ""
    /\ valSt = "none" /\ valErrs = {}

OpsIdle ==
    /\ image = NoImage /\ opName = "idle" /\ opArg = 0 /\ opOut = NoImage /\ opExc = ""

PipeIdle ==
    /\ params = 0 /\ pc = "idle" /\ result = NoImage /\ stages = <<>> /\ pipeExc = ""
    /\ outcomes = <<>>

\* the subsystems other than the one named are not in use
IdleExcept(sys) ==
    /\ (IF sys = "loc" THEN TRUE ELSE loc = [pc |-> "idle"])
    /\ (IF sys = "ext" THEN TRUE ELSE ext = [pc |-> "idle"])
    /\ (IF sys = "prev" THEN TRUE ELSE prev = [pc |-> "idle"])
    /\ (IF sys = "cfg" THEN TRUE ELSE cfg = [pc |-> "idle"])
    /\ (IF sys = "sel" THEN TRUE ELSE sel = [pc |-> "idle"])
    /\ (IF sys = "gt" THEN TRUE ELSE gt = [pc |-> "idle"])
    /\ (IF sys = "sty" THEN TRUE ELSE sty = [pc |-> "idle"])
    /\ (IF sys = "prov" THEN TRUE ELSE prov = [pc |-> "idle"])

RestIdle == IdleExcept("none")

SanInit ==
    /\ raw \in RawInputs
    /\ san = raw
    /\ sanSt = "init"
    /\ sanExc = ""
    /\ valSt = "none"
    /\ valErrs = {}
    /\ OpsIdle
    /\ PipeIdle
    /\ RestIdle

\* the call of sanitize_ai_params: it works on the dict in place and returns it,
\* or leaves it partly changed when it raises
Sanitize ==
    /\ sanSt = "init"
    /\ LET r == sanitize_ai_params(raw) IN
         /\ san' = r.d
         /\ sanSt' = IF r.status = "raised" THEN "raised" ELSE "returned"
         /\ sanExc' = r.exc
    /\ UNCHANGED <<raw, valSt, valErrs, opVars, pipeVars, restVars>>

\* the construction of ColorParams from the returned dict
Construct ==
    /\ sanSt = "returned"
    /\ valSt = "none"
    /\ LET errs == ColorParams(san) IN
         /\ valErrs' = errs
         /\ valSt' = IF errs = {} THEN "ok" ELSE "error"
    /\ UNCHANGED <<raw, san, sanSt, sanExc, opVars, pipeVars, restVars>>

SanNext == Sanitize \/ Construct

vars == <<sanVars, opVars, pipeVars, restVars>>

SpecSanitize == SanInit /\ [][SanNext]_vars

---------------------------------------------------------------------------
(* Claims about the sanitizer and the parameter model.                      *)

\* C1: for every raw parameter dict, building ColorParams from the dict that
\* sanitize_ai_params returned never fails with a violated ge/le bound.
C1_NoRangeViolation == valSt = "error" => "range" \notin valErrs

\* C2: sanitize_ai_params returns normally for every parsed-JSON dict: it never
\* raises, whatever the types of the values at the known paths.
C2_NeverRaises == sanSt # "raised"

EffectsOf(d) == Pay(d["effects"])
HasEffectsDict(d) == Has(d, "effects") /\ IsDict(d["effects"])

\* C3: when sanitize_ai_params has returned and effects is a mapping, effects.grain
\* is present and is 0, whatever effects.grain was in the input (or absent).
C3_GrainForcedZero ==
    (sanSt = "returned" /\ HasEffectsDict(san)) =>
        (Has(EffectsOf(san), "grain") /\ EffectsOf(san)["grain"] = Num(0))

\* a call returned on an effects mapping whose grain was 100.5
C3_Witness ==
    /\ sanSt = "returned"
    /\ HasEffectsDict(raw) /\ Has(EffectsOf(raw), "grain")
    /\ EffectsOf(raw)["grain"] = Num(201)
    /\ EffectsOf(san)["grain"] = Num(0)

InRange(x, lo, hi) == Kind(x) = "num" /\ lo <= Pay(x) /\ Pay(x) <= hi

\* C4: when sanitize_ai_params has returned, effects.clarity (when present) is a
\* number in [-30, 30] and effects.dehaze (when present) a number in [-20, 25].
C4_QualityCaps ==
    (sanSt = "returned" /\ HasEffectsDict(san)) =>
        /\ Has(EffectsOf(san), "clarity") => InRange(EffectsOf(san)["clarity"], -60, 60)
        /\ Has(EffectsOf(san), "dehaze") => InRange(EffectsOf(san)["dehaze"], -40, 50)

\* a call returned on clarity 100.5 and dehaze -30.5, now 30 and -20
C4_Witness ==
    /\ sanSt = "returned"
    /\ HasEffectsDict(raw) /\ Has(EffectsOf(raw), "clarity") /\ Has(EffectsOf(raw), "dehaze")
    /\ EffectsOf(raw)["clarity"] = Num(201) /\ EffectsOf(san)["clarity"] = Num(60)
    /\ EffectsOf(raw)["dehaze"] = Num(-61) /\ EffectsOf(san)["dehaze"] = Num(-40)

HasCurveList(d, key) ==
    /\ Has(d, "tone_curve") /\ IsDict(d["tone_curve"])
    /\ Has(Pay(d["tone_curve"]), key) /\ IsList(Pay(d["tone_curve"])[key])
CurveOf(d, key) == Pay(Pay(d["tone_curve"])[key])

\* the i-th smallest element of a set of indexes
NthOf(S, j) == CHOOSE i \in S : Cardinality({k \in S : k <= i}) = j

\* the output coordinate out is the input coordinate clamped to [0, 255] and
\* truncated to an integer (values in halves)
IsClampedInt(inp, out) ==
    /\ Kind(out) = "num" /\ Pay(out) % 2 = 0 /\ 0 <= Pay(out) /\ Pay(out) <= 510
    /\ Kind(inp) = "num" =>
          /\ Pay(inp) < 0 => Pay(out) = 0
          /\ Pay(inp) > 510 => Pay(out) = 510
          /\ (0 <= Pay(inp) /\ Pay(inp) <= 510) =>
                (Pay(out) <= Pay(inp) /\ Pay(inp) < Pay(out) + 2)

\* The array `out` is the array `inp` restricted to the indexes `kept`, in order,
\* each kept point reduced to the pair of its first two coordinates, clamped and
\* truncated.
IsFilteredCurve(inp, out, kept) ==
    /\ Len(out) = Cardinality(kept)
    /\ \A j \in 1..Len(out) :
          /\ IsList(out[j]) /\ Len(Pay(out[j])) = 2
          /\ \A c \in 1..2 : IsClampedInt(Pay(inp[NthOf(kept, j)])[c], Pay(out[j])[c])

CurveClaim(IsKept(_)) ==
    \A key \in {"points", "red", "green", "blue"} :
        (sanSt = "returned" /\ HasCurveList(raw, key)) =>
            /\ HasCurveList(san, key)
            /\ LET inp == CurveOf(raw, key) IN
               IsFilteredCurve(inp, CurveOf(san, key),
                               {i \in 1..Len(inp) : IsKept(inp[i])})

IsPair(p) == IsList(p) /\ Len(Pay(p)) = 2
IsAtLeastPair(p) == IsList(p) /\ Len(Pay(p)) >= 2

---------------------------------------------------------------------------
(* Images and the operations of app/core/image_ops.py.                      *)
(*                                                                          *)
(* An image is [h, w, px]: px is the row-major sequence of its h*w pixels,  *)
(* a pixel is <<r, g, b>>, and a channel value v in 0..Q stands for the     *)
(* float v/Q. The float arithmetic of the code is carried out at this       *)
(* resolution, rounding down. Amounts are in halves, as above.              *)

Q == 1000

Abs(x) == IF x < 0 THEN -x ELSE x

\* image_ops._clamp = np.clip(img, 0.0, 1.0), on one value and on one pixel
Clamp01(v) == Max(0, Min(Q, v))
ClampPx(p) == <<Clamp01(p[1]), Clamp01(p[2]), Clamp01(p[3])>>

MapPx(img, F(_)) == [img EXCEPT !.px = [i \in 1..Len(img.px) |-> F(img.px[i])]]

\* 0.2126 R + 0.7152 G + 0.0722 B
Luminance(p) == (2126 * p[1] + 7152 * p[2] + 722 * p[3]) \div 10000

\* _srgb_to_linear (line 23). The power 2.4 is taken as t^2 * (0.3 + 0.7 t).
SrgbToLinear(x) ==
    IF 100000 * x <= 4045 * Q THEN (100 * x) \div 1292
    ELSE LET t == (1000 * x + 55 * Q) \div 1055 IN
         (((t * t) \div Q) * (3 * Q + 7 * t)) \div (10 * Q)

\* _linear_to_srgb (line 27) followed by _clamp: the inverse of SrgbToLinear, found
\* by bisection: the smallest sRGB value in lo..hi whose linear value is >= v
RECURSIVE InvertLinear(_, _, _)
InvertLinear(v, lo, hi) ==
    IF lo >= hi THEN lo
    ELSE LET mid == (lo + hi) \div 2 IN
         IF SrgbToLinear(mid) >= v THEN InvertLinear(v, lo, mid)
         ELSE InvertLinear(v, mid + 1, hi)

LinearToSrgb(v) == InvertLinear(Max(0, Min(Q, v)), 0, Q)

\* 2 ** ev as a fraction of 1000, ev in halves (2 ** 0.5 taken as 1.414)
Pow2(e) ==
    LET P(n) == (2 ^ (n \div 2)) * (IF n % 2 = 1 THEN 1414 ELSE 1000) IN
    IF e >= 0 THEN P(e) ELSE 1000000 \div P(-e)

\* adjust_exposure (lines 95-101)
adjust_exposure(img, ev) ==
    IF ev = 0 THEN img
    ELSE MapPx(img, LAMBDA p :
            [c \in 1..3 |-> LinearToSrgb((SrgbToLinear(p[c]) * Pow2(ev)) \div 1000)])

\* adjust_contrast (lines 104-109)
adjust_contrast(img, amount) ==
    IF amount = 0 THEN img
    ELSE MapPx(img, LAMBDA p :
            ClampPx([c \in 1..3 |-> Q \div 2 + ((amount + 200) * (p[c] - Q \div 2)) \div 200]))

AddAll(p, d) == ClampPx(<<p[1] + d, p[2] + d, p[3] + d>>)

\* adjust_highlights (lines 112-122)
adjust_highlights(img, amount) ==
    IF amount = 0 THEN img
    ELSE MapPx(img, LAMBDA p :
            LET w1 == Clamp01(2 * (Luminance(p) - Q \div 2))
                weight == (w1 * w1) \div Q IN
            AddAll(p, (amount * weight) \div 400))

\* adjust_shadows (lines 125-134)
adjust_shadows(img, amount) ==
    IF amount = 0 THEN img
    ELSE MapPx(img, LAMBDA p :
            LET w1 == Clamp01(2 * (Q \div 2 - Luminance(p)))
                weight == (w1 * w1) \div Q IN
            AddAll(p, (amount * weight) \div 400))

\* adjust_whites (lines 137-145)
adjust_whites(img, amount) ==
    IF amount = 0 THEN img
    ELSE MapPx(img, LAMBDA p :
            LET weight == Clamp01((33 * (Luminance(p) - (7 * Q) \div 10)) \div 10) IN
            AddAll(p, (amount * weight) \div 400))

\* adjust_blacks (lines 148-156)
adjust_blacks(img, amount) ==
    IF amount = 0 THEN img
    ELSE MapPx(img, LAMBDA p :
            LET weight == Clamp01((33 * ((3 * Q) \div 10 - Luminance(p))) \div 10) IN
            AddAll(p, (amount * weight) \div 400))

\* adjust_temperature (lines 163-175); 6500 K is 13000 halves
adjust_temperature(img, kelvin) ==
    IF kelvin = 13000 THEN img
    ELSE LET strength == ((kelvin - 13000) * 15 * Q) \div 1100000 IN
         MapPx(img, LAMBDA p : ClampPx(<<p[1] + strength, p[2], p[3] - strength>>))

\* adjust_tint (lines 178-187)
adjust_tint(img, amount) ==
    IF amount = 0 THEN img
    ELSE LET strength == (amount * Q) \div 2000 IN
         MapPx(img, LAMBDA p :
            ClampPx(<<p[1] + strength \div 2, p[2] - strength, p[3] + strength \div 2>>))

Max3(p) == Max(Max(p[1], p[2]), p[3])
Min3(p) == Min(Min(p[1], p[2]), p[3])

\* _rgb_to_hsl (lines 30-53): <<h, s, l>>, h in degrees, s and l in 0..Q. The three
\* masked assignments run in the order r, g, b, so the last matching one stands.
RgbToHsl(p) ==
    LET cmax == Max3(p)
        cmin == Min3(p)
        delta == cmax - cmin
        l == (cmax + cmin) \div 2
        s == IF delta = 0 THEN 0 ELSE (delta * Q) \div (Q - Abs(cmax + cmin - Q))
        h == IF delta = 0 THEN 0
             ELSE IF cmax = p[3] THEN (60 * (p[1] - p[2])) \div delta + 240
             ELSE IF cmax = p[2] THEN (60 * (p[3] - p[1])) \div delta + 120
             ELSE ((60 * (p[2] - p[3])) \div delta) % 360 IN
    <<h % 360, s, l>>

\* _hsl_to_rgb (lines 56-88)
HslToRgb(hsl) ==
    LET h == hsl[1]
        c == ((Q - Abs(2 * hsl[3] - Q)) * hsl[2]) \div Q
        x == (c * (60 - Abs((h % 120) - 60))) \div 60
        m == hsl[3] - c \div 2
        sector == (h \div 60) % 6
        rgb == CASE sector = 0 -> <<c, x, 0>>
                 [] sector = 1 -> <<x, c, 0>>
                 [] sector = 2 -> <<0, c, x>>
                 [] sector = 3 -> <<0, x, c>>
                 [] sector = 4 -> <<x, 0, c>>
                 [] OTHER      -> <<c, 0, x>> IN
    ClampPx(<<rgb[1] + m, rgb[2] + m, rgb[3] + m>>)

\* adjust_vibrance (lines 190-200)
adjust_vibrance(img, amount) ==
    IF amount = 0 THEN img
    ELSE MapPx(img, LAMBDA p :
            LET hsl == RgbToHsl(p)
                boost == (amount * (Q - hsl[2])) \div 400 IN
            HslToRgb(<<hsl[1], Clamp01(hsl[2] + boost), hsl[3]>>))

\* adjust_saturation, were its factor (amount + 110) / 100
adjust_saturation_tenth_more(img, amount) ==
    IF amount = 0 THEN img
    ELSE MapPx(img, LAMBDA p :
            LET gray == Luminance(p) IN
            ClampPx([c \in 1..3 |-> gray + ((amount + 220) * (p[c] - gray)) \div 200]))

\* adjust_saturation (lines 203-210)
adjust_saturation(img, amount) ==
    IF amount = 0 THEN img
    ELSE MapPx(img, LAMBDA p :
            LET gray == Luminance(p) IN
            ClampPx([c \in 1..3 |-> gray + ((amount + 200) * (p[c] - gray)) \div 200]))

\* The default master curve, and a channel override (red, green or blue) that is
\* None or a list of points. A point is <<x, y>>, both in 0..255.
default_pts == <<(<<0, 0>>), (<<64, 64>>), (<<128, 128>>), (<<192, 192>>), (<<255, 255>>)>>
NoCurve     == [given |-> FALSE, pts |-> <<>>]
Curve(pts)  == [given |-> TRUE, pts |-> pts]

\* sorted(pts, key=lambda p: p[0]): a stable insertion sort
RECURSIVE InsertByX(_, _)
InsertByX(sorted, p) ==
    IF sorted = <<>> THEN <<p>>
    ELSE IF p[1] < Head(sorted)[1] THEN <<p>> \o sorted
    ELSE <<Head(sorted)>> \o InsertByX(Tail(sorted), p)

RECURSIVE SortByX(_)
SortByX(pts) ==
    IF pts = <<>> THEN <<>>
    ELSE InsertByX(SortByX(SubSeq(pts, 1, Len(pts) - 1)), pts[Len(pts)])

\* CubicSpline(xs, ys) refuses xs that are not strictly increasing (ValueError)
LutRaises(pts) ==
    LET s == SortByX(pts) IN
    Len(s) >= 2 /\ \E i \in 1..(Len(s) - 1) : s[i][1] >= s[i + 1][1]

\* _build_lut (lines 226-235): entry k of the table, as a channel value. Between
\* the control points the model interpolates linearly (the spline's own shape is
\* not modelled); outside them the nearest segment is extended and clipped.
LutAt(pts, k) ==
    LET s == SortByX(pts)
        n == Len(s) IN
    IF n < 2 THEN (k * Q) \div 255
    ELSE LET i == IF k <= s[1][1] THEN 1
                  ELSE IF k >= s[n][1] THEN n - 1
                  ELSE CHOOSE j \in 1..(n - 1) : s[j][1] <= k /\ k < s[j + 1][1]
             y == s[i][2] + ((s[i + 1][2] - s[i][2]) * (k - s[i][1])) \div (s[i + 1][1] - s[i][1])
         IN (Max(0, Min(255, y)) * Q) \div 255

\* lines 243-256: (img * 255).astype(np.uint8) indexes the table of each channel
ToneCurveBody(img, points, red, green, blue) ==
    LET chans == <<red, green, blue>> IN
    MapPx(img, LAMBDA p :
        ClampPx([c \in 1..3 |->
            LutAt(IF chans[c].given THEN chans[c].pts ELSE points, (p[c] * 255) \div Q)]))

\* some table that apply_tone_curve builds raises
ToneCurveRaises(points, red, green, blue) ==
    /\ ~(points = default_pts /\ ~red.given /\ ~green.given /\ ~blue.given)
    /\ \/ LutRaises(points)
       \/ \E ch \in {red, green, blue} : ch.given /\ LutRaises(ch.pts)

tone_curve_without_identity_check(img, points, red, green, blue) ==
    ToneCurveBody(img, points, red, green, blue)

\* apply_tone_curve (lines 217-256), when it does not raise
apply_tone_curve(img, points, red, green, blue) ==
    IF points = default_pts /\ ~red.given /\ ~green.given /\ ~blue.given THEN img
    ELSE ToneCurveBody(img, points, red, green, blue)

\* _HSL_RANGES (lines 264-273), in dict order
HSL_RANGES == <<
    [name |-> "red",     center |-> 0,   width |-> 30],
    [name |-> "orange",  center |-> 30,  width |-> 30],
    [name |-> "yellow",  center |-> 60,  width |-> 30],
    [name |-> "green",   center |-> 120, width |-> 60],
    [name |-> "aqua",    center |-> 180, width |-> 30],
    [name |-> "blue",    center |-> 240, width |-> 40],
    [name |-> "purple",  center |-> 280, width |-> 30],
    [name |-> "magenta", center |-> 320, width |-> 30] >>

HslZero == [hue |-> 0, saturation |-> 0, luminance |-> 0]
\* params.hsl.model_dump(): all eight channels, each with its three deltas
HslDefault == [c \in {HSL_RANGES[i].name : i \in 1..Len(HSL_RANGES)} |-> HslZero]

\* lines 302-303: the weight of a band for the hue h
HslWeight(h, center, width) ==
    LET hue_dist == Min(Abs(h - center), 360 - Abs(h - center)) IN
    Clamp01(Q - (hue_dist * Q) \div width)

\* lines 293-308: the bands from i on, on one pixel's <<h, s, l>>
RECURSIVE HslBands(_, _, _)
HslBands(hsl, hsl_params, i) ==
    IF i > Len(HSL_RANGES) THEN hsl
    ELSE LET band == HSL_RANGES[i]
             prm == hsl_params[band.name] IN
         IF prm.hue = 0 /\ prm.saturation = 0 /\ prm.luminance = 0
         THEN HslBands(hsl, hsl_params, i + 1)
         ELSE LET weight == HslWeight(hsl[1], band.center, band.width) IN
              HslBands(<<hsl[1] + (prm.hue * weight) \div (2 * Q),
                         Clamp01(hsl[2] + (prm.saturation * weight) \div 200),
                         Clamp01(hsl[3] + (prm.luminance * weight) \div 400)>>,
                       hsl_params, i + 1)

\* adjust_hsl (lines 276-312)
adjust_hsl(img, hsl_params) ==
    IF \A c \in DOMAIN hsl_params : hsl_params[c] = HslZero THEN img
    ELSE MapPx(img, LAMBDA p :
            LET out == HslBands(RgbToHsl(p), hsl_params, 1) IN
            HslToRgb(<<out[1] % 360, out[2], out[3]>>))

\* 1000 * cos of an angle given in degrees, for the multiples of 60 (the hues the
\* model passes); 2.094 rad is taken as 120 degrees
Cos1000(deg) ==
    LET d == deg % 360 IN
    CASE d = 0 -> 1000
      [] d = 60 -> 500
      [] d = 120 -> -500
      [] d = 180 -> -1000
      [] d = 240 -> -500
      [] OTHER -> 500

\* lines 340-355 for one zone: what it adds to the pixel p of luminance lum.
\* hue and sat in halves; the weight is 0 where the code divides by 1e-10.
SplitZone(p, lum, hue, sat, midpoint, is_highlight) ==
    IF sat = 0 THEN <<0, 0, 0>>
    ELSE LET deg == hue \div 2
             tint == <<Cos1000(deg), Cos1000(deg - 120), Cos1000(deg + 120)>>
             strength == (sat * 3 * Q) \div 2000
             weight == IF is_highlight
                       THEN (IF midpoint >= Q THEN 0
                             ELSE Clamp01(((lum - midpoint) * Q) \div (Q - midpoint)))
                       ELSE (IF midpoint <= 0 THEN 0
                             ELSE Clamp01(((midpoint - lum) * Q) \div midpoint)) IN
         [c \in 1..3 |-> (strength * weight * tint[c]) \div (2000 * Q)]

\* apply_split_toning (lines 319-357)
apply_split_toning(img, highlights_hue, highlights_sat, shadows_hue, shadows_sat, balance) ==
    IF highlights_sat = 0 /\ shadows_sat = 0 THEN img
    ELSE LET midpoint == Q \div 2 + (balance * Q) \div 400 IN
         MapPx(img, LAMBDA p :
            LET lum == Luminance(p)
                hi == SplitZone(p, lum, highlights_hue, highlights_sat, midpoint, TRUE)
                lo == SplitZone(p, lum, shadows_hue, shadows_sat, midpoint, FALSE) IN
            ClampPx([c \in 1..3 |-> p[c] + hi[c] + lo[c]]))

\* cv2.cvtColor(img_u8, COLOR_RGB2GRAY) of the pixel as uint8
Gray255(p) ==
    (299 * ((p[1] * 255) \div Q) + 587 * ((p[2] * 255) \div Q)
       + 114 * ((p[3] * 255) \div Q) + 500) \div 1000

SumSeq(f, n) ==
    LET S[i \in 0..n] == IF i = 0 THEN 0 ELSE S[i - 1] + f[i] IN S[n]

\* adjust_clarity (lines 364-384). The Gaussian blur of sigma 20 covers the whole
\* of the small images of the model: the blurred value is taken as the mean gray.
adjust_clarity(img, amount) ==
    IF amount = 0 THEN img
    ELSE LET n == Len(img.px)
             blurred == SumSeq([i \in 1..n |-> Gray255(img.px[i])], n) \div n IN
         MapPx(img, LAMBDA p :
            LET hp == Gray255(p) - blurred
                high_pass == IF 100 * Abs(hp) < 2 * 255 THEN 0 ELSE hp IN
            AddAll(p, (amount * 3 * high_pass * Q) \div (2000 * 255)))

\* adjust_dehaze (lines 387-413). With fewer than 2000 pixels num_pixels is 1 and
\* the atmospheric light is the pixel of the largest dark channel; np.argpartition
\* settles ties by position, the model takes the last such pixel.
adjust_dehaze(img, amount) ==
    IF amount = 0 THEN img
    ELSE LET n == Len(img.px)
             top == CHOOSE i \in 1..n :
                      /\ \A j \in 1..n : Min3(img.px[j]) <= Min3(img.px[i])
                      /\ \A j \in (i + 1)..n : Min3(img.px[j]) < Min3(img.px[i])
             atmospheric == [c \in 1..3 |-> Max(img.px[top][c], Q \div 5)] IN
         MapPx(img, LAMBDA p :
            LET normalized == [c \in 1..3 |-> (p[c] * Q) \div atmospheric[c]]
                transmission == Max(Q - (amount * 7 * Min3(normalized)) \div 2000,
                                    (3 * Q) \div 10) IN
            ClampPx([c \in 1..3 |->
                ((p[c] - atmospheric[c]) * Q) \div transmission + atmospheric[c]]))

\* apply_vignette, were its mask 1.0 - strength * dist ** 2
apply_vignette_inverted(img, amount) ==
    IF amount = 0 THEN img
    ELSE [img EXCEPT !.px = [i \in 1..Len(img.px) |->
            LET x == (i - 1) % img.w
                y == (i - 1) \div img.w
                num == (2 * x - img.w) * (2 * x - img.w) + (2 * y - img.h) * (2 * y - img.h)
                den == img.w * img.w + img.h * img.h IN
            ClampPx([c \in 1..3 |->
                img.px[i][c] - (img.px[i][c] * amount * num) \div (200 * den)])]]

\* apply_vignette (lines 416-429): the pixel i (row-major, from 1) is at column
\* x and row y; dist ** 2 = ((x - w/2)^2 + (y - h/2)^2) / ((w/2)^2 + (h/2)^2)
apply_vignette(img, amount) ==
    IF amount = 0 THEN img
    ELSE [img EXCEPT !.px = [i \in 1..Len(img.px) |->
            LET x == (i - 1) % img.w
                y == (i - 1) \div img.w
                num == (2 * x - img.w) * (2 * x - img.w) + (2 * y - img.h) * (2 * y - img.h)
                den == img.w * img.w + img.h * img.h IN
            ClampPx([c \in 1..3 |->
                img.px[i][c] + (img.px[i][c] * amount * num) \div (200 * den)])]]

\* apply_grain (lines 432-439): strength = min(amount / 100, 0.05) * 0.1 is the
\* standard deviation of the noise drawn from the process-wide numpy generator.
\* GrainNoises(img, amount) are noise arrays a call may draw: per pixel nothing,
\* or one standard deviation (at least one step of the resolution) up, down or
\* across the channels; odd and even pixels draw independently.
GrainStep(amount) == Max(1, (Min(amount, 10) * Q) \div 2000)

GrainNoises(img, amount) ==
    LET d == GrainStep(amount)
        vecs == {<<d, d, d>>, <<-d, -d, -d>>, <<0, 0, 0>>, <<d, 0, -d>>} IN
    {[i \in 1..Len(img.px) |-> IF i % 2 = 1 THEN u ELSE v] : u \in vecs, v \in vecs}

apply_grain(img, amount, noise) ==
    IF amount = 0 THEN img
    ELSE [img EXCEPT !.px = [i \in 1..Len(img.px) |->
            ClampPx([c \in 1..3 |-> img.px[i][c] + noise[i][c]])]]

---------------------------------------------------------------------------
(* The images and parameters the operations are called with.                *)

MaxSide == 2   \* images have 1..MaxSide rows and columns

Pixels == {<<0, 0, 0>>, <<Q, Q, Q>>, <<Q \div 2, Q \div 2, Q \div 2>>,
           <<(4 * Q) \div 5, 0, 0>>, <<0, (4 * Q) \div 5, 0>>,
           <<(4 * Q) \div 5, (4 * Q) \div 5, 0>>, <<Q \div 3, Q \div 2, (7 * Q) \div 9>>}

\* a one-pixel image of every pixel, two-pixel rows of every pair, and the larger
\* images of two pixels in a checkerboard
Images ==
    {[h |-> 1, w |-> 1, px |-> <<p>>] : p \in Pixels}
    \cup {[h |-> 1, w |-> 2, px |-> <<p, q>>] : p \in Pixels, q \in Pixels}
    \cup {[h |-> hh, w |-> ww, px |-> [i \in 1..(hh * ww) |-> IF i % 2 = 1 THEN p ELSE q]] :
            hh \in 2..MaxSide, ww \in 1..MaxSide,
            p \in {<<Q \div 2, Q \div 2, Q \div 2>>}, q \in Pixels}

Amounts      == {-200, -60, 0, 1, 80, 200}     \* -100, -30, 0, 0.5, 40, 100
Exposures    == {-6, -2, 0, 1, 2, 6}           \* EV -3 .. 3
Temperatures == {4000, 12000, 13000, 15000, 24000}

SCurve   == <<(<<0, 0>>), (<<64, 50>>), (<<192, 210>>), (<<255, 255>>)>>
Unsorted == <<(<<255, 255>>), (<<0, 20>>), (<<128, 100>>)>>
SameX    == <<(<<0, 0>>), (<<0, 30>>), (<<255, 255>>)>>

ToneCurves ==
    {[points |-> pts, red |-> NoCurve, green |-> NoCurve, blue |-> NoCurve] :
        pts \in {default_pts, SCurve, Unsorted, SameX, <<(<<10, 40>>)>>, <<>>}}
    \cup {[points |-> default_pts, red |-> r, green |-> NoCurve, blue |-> b] :
        r \in {NoCurve, Curve(default_pts), Curve(SCurve)},
        b \in {NoCurve, Curve(SCurve), Curve(SameX)}}

HslSets ==
    {[HslDefault EXCEPT ![c] = d] :
        c \in {"red", "green", "blue"},
        d \in {HslZero, [HslZero EXCEPT !.hue = 120], [HslZero EXCEPT !.hue = -360],
               [HslZero EXCEPT !.saturation = -200], [HslZero EXCEPT !.luminance = 60]}}
    \cup {[HslDefault EXCEPT !["red"] = [HslZero EXCEPT !.hue = 360],
                             !["aqua"] = [HslZero EXCEPT !.saturation = 200]]}
    \cup {[HslDefault EXCEPT !["red"] = [HslZero EXCEPT !.hue = -360],
                             !["blue"] = [HslZero EXCEPT !.luminance = 200]]}

SplitTones ==
    [highlights_hue : {0, 120, 720}, highlights_sat : {0, 100, 200},
     shadows_hue : {0, 480}, shadows_sat : {0, 200}, balance : {-200, 0, 200}]

GrainAmounts == {0, 1, 10, 200}

---------------------------------------------------------------------------
(* One call of one operation of image_ops on an image, as the tests of      *)
(* tests/test_image_processor.py and apply_params make them.                *)

OpsInit ==
    /\ image \in Images
    /\ opName = "none" /\ opArg = 0 /\ opOut = NoImage /\ opExc = ""
    /\ SanIdle
    /\ PipeIdle
    /\ RestIdle

Called(name, arg, out) ==
    /\ opName = "none"
    /\ opName' = name
    /\ opArg' = arg
    /\ opOut' = out
    /\ opExc' = ""
    /\ UNCHANGED <<image, sanVars, pipeVars, restVars>>

CallExposure    == \E ev \in Exposures : Called("exposure", ev, adjust_exposure(image, ev))
CallContrast    == \E a \in Amounts : Called("contrast", a, adjust_contrast(image, a))
CallHighlights  == \E a \in Amounts : Called("highlights", a, adjust_highlights(image, a))
CallShadows     == \E a \in Amounts : Called("shadows", a, adjust_shadows(image, a))
CallWhites      == \E a \in Amounts : Called("whites", a, adjust_whites(image, a))
CallBlacks      == \E a \in Amounts : Called("blacks", a, adjust_blacks(image, a))
CallTemperature == \E k \in Temperatures : Called("temperature", k, adjust_temperature(image, k))
CallTint        == \E a \in Amounts : Called("tint", a, adjust_tint(image, a))
CallVibrance    == \E a \in Amounts : Called("vibrance", a, adjust_vibrance(image, a))
CallSaturation  == \E a \in Amounts : Called("saturation", a, adjust_saturation(image, a))
CallClarity     == \E a \in Amounts : Called("clarity", a, adjust_clarity(image, a))
CallDehaze      == \E a \in Amounts : Called("dehaze", a, adjust_dehaze(image, a))
CallVignette    == \E a \in Amounts : Called("vignette", a, apply_vignette(image, a))

CallHsl == \E h \in HslSets : Called("hsl", h, adjust_hsl(image, h))

CallSplitToning ==
    \E st \in SplitTones :
        Called("split_toning", st,
               apply_split_toning(image, st.highlights_hue, st.highlights_sat,
                                  st.shadows_hue, st.shadows_sat, st.balance))

\* the noise is whatever the process-wide generator yields at the call
CallGrain ==
    \E a \in GrainAmounts : \E noise \in GrainNoises(image, a) :
        Called("grain", a, apply_grain(image, a, noise))

CallToneCurve ==
    \E tc \in ToneCurves :
        IF ToneCurveRaises(tc.points, tc.red, tc.green, tc.blue)
        THEN /\ opName = "none"
             /\ opName' = "tone_curve"
             /\ opArg' = tc
             /\ opExc' = "ValueError"
             /\ UNCHANGED <<image, opOut, sanVars, pipeVars, restVars>>
        ELSE Called("tone_curve", tc,
                    apply_tone_curve(image, tc.points, tc.red, tc.green, tc.blue))

OpsNext ==
    \/ CallExposure \/ CallContrast \/ CallHighlights \/ CallShadows \/ CallWhites
    \/ CallBlacks \/ CallTemperature \/ CallTint \/ CallVibrance \/ CallSaturation
    \/ CallToneCurve \/ CallHsl \/ CallSplitToning
    \/ CallClarity \/ CallDehaze \/ CallVignette \/ CallGrain

SpecOps == OpsInit /\ [][OpsNext]_vars

\* C7: every image operation returns its input unchanged when its parameter is the
\* neutral default: amount 0 (exposure, contrast, highlights, shadows, whites,
\* blacks, tint, vibrance, saturation, clarity, dehaze, vignette, grain), 6500 K
\* (temperature), the five-point diagonal without channel overrides (tone curve),
\* all-zero deltas (HSL), zero saturations (split toning).
C7_NeutralIsIdentity ==
    /\ (opName \in {"exposure", "contrast", "highlights", "shadows", "whites", "blacks",
                    "tint", "vibrance", "saturation", "clarity", "dehaze", "vignette",
                    "grain"} /\ opArg = 0) => (opExc = "" /\ opOut = image)
    /\ (opName = "temperature" /\ opArg = 13000) => (opExc = "" /\ opOut = image)
    /\ (opName = "tone_curve" /\ opArg.points = default_pts /\ ~opArg.red.given
            /\ ~opArg.green.given /\ ~opArg.blue.given) => (opExc = "" /\ opOut = image)
    /\ (opName = "hsl" /\ \A c \in DOMAIN opArg : opArg[c] = HslZero)
            => (opExc = "" /\ opOut = image)
    /\ (opName = "split_toning" /\ opArg.highlights_sat = 0 /\ opArg.shadows_sat = 0)
            => (opExc = "" /\ opOut = image)

\* the tone curve was applied with the default diagonal to an image whose values
\* are no multiples of 1/255, and returned it
C7_Witness ==
    /\ opName = "tone_curve" /\ opArg.points = default_pts /\ ~opArg.red.given
    /\ ~opArg.green.given /\ ~opArg.blue.given
    /\ image = [h |-> 1, w |-> 1, px |-> << <<Q \div 3, Q \div 2, (7 * Q) \div 9>> >>]
    /\ opOut = image

---------------------------------------------------------------------------
(* ImageProcessor.apply_params, services/image_processor.py lines 52-104.   *)

MaxCalls == 2   \* apply_params is invoked at most MaxCalls times on the same arguments

\* the functions that app/core/image_ops.py defines at module level
ImageOpsNames ==
    {"_clamp", "_srgb_to_linear", "_linear_to_srgb", "_rgb_to_hsl", "_hsl_to_rgb",
     "adjust_exposure", "adjust_contrast", "adjust_highlights", "adjust_shadows",
     "adjust_whites", "adjust_blacks", "adjust_temperature", "adjust_tint",
     "adjust_vibrance", "adjust_saturation", "apply_tone_curve", "adjust_hsl",
     "apply_split_toning", "adjust_clarity", "adjust_dehaze", "apply_vignette",
     "apply_grain"}

SplitToneDefault == [hue |-> 0, saturation |-> 0]

\* ColorParams.identity(): every field at its declared default
IdentityParams ==
    [basic |-> [exposure |-> 0, contrast |-> 0, highlights |-> 0, shadows |-> 0,
                whites |-> 0, blacks |-> 0],
     color |-> [temperature |-> 13000, tint |-> 0, vibrance |-> 0, saturation |-> 0],
     tone_curve |-> [points |-> default_pts, red |-> NoCurve, green |-> NoCurve,
                     blue |-> NoCurve],
     hsl |-> HslDefault,
     split_toning |-> [highlights |-> SplitToneDefault, midtones |-> SplitToneDefault,
                       shadows |-> SplitToneDefault, balance |-> 0],
     effects |-> [clarity |-> 0, dehaze |-> 0, vignette |-> 0, grain |-> 0, texture |-> 0,
                  fade |-> 0, sharpening |-> 0, sharpen_radius |-> 2]]

\* test_all_max_params and test_all_min_params
AllMaxParams ==
    [IdentityParams EXCEPT
        !.basic = [exposure |-> 6, contrast |-> 200, highlights |-> 200, shadows |-> 200,
                   whites |-> 200, blacks |-> 200],
        !.color = [temperature |-> 24000, tint |-> 200, vibrance |-> 200,
                   saturation |-> 200],
        !.effects.clarity = 200, !.effects.dehaze = 200, !.effects.vignette = -200,
        !.effects.grain = 200]

AllMinParams ==
    [IdentityParams EXCEPT
        !.basic = [exposure |-> -6, contrast |-> -200, highlights |-> -200,
                   shadows |-> -200, whites |-> -200, blacks |-> -200],
        !.color = [temperature |-> 4000, tint |-> -200, vibrance |-> -200,
                   saturation |-> -200],
        !.effects.clarity = -200, !.effects.dehaze = -200, !.effects.vignette = 200]

\* valid parameter sets: the three above and sets that differ from the identity in
\* one field
ParamSets ==
    {IdentityParams, AllMaxParams, AllMinParams}
    \cup {[IdentityParams EXCEPT !.basic.exposure = ev] : ev \in {-2, 1}}
    \cup {[IdentityParams EXCEPT !.basic.shadows = 80]}
    \cup {[IdentityParams EXCEPT !.color.saturation = -200]}
    \cup {[IdentityParams EXCEPT !.color.temperature = 15000]}
    \cup {[IdentityParams EXCEPT !.tone_curve.points = pts] : pts \in {SCurve, SameX}}
    \cup {[IdentityParams EXCEPT !.tone_curve.red = Curve(SCurve)]}
    \cup {[IdentityParams EXCEPT !.hsl["red"].hue = 120]}
    \cup {[IdentityParams EXCEPT !.split_toning.highlights.saturation = 100]}
    \cup {[IdentityParams EXCEPT !.effects.vignette = -200]}
    \cup {[IdentityParams EXCEPT !.effects.grain = g] : g \in {1, 200}}

PipeInit ==
    /\ image \in Images
    /\ params \in ParamSets
    /\ pc = "ready" /\ result = NoImage /\ stages = <<>> /\ pipeExc = ""
    /\ outcomes = <<>>
    /\ opName = "idle" /\ opArg = 0 /\ opOut = NoImage /\ opExc = ""
    /\ SanIdle
    /\ RestIdle

\* a stage group ran: it received the local result and rebound it to its output
Ran(group, out, next) ==
    /\ stages' = Append(stages, [group |-> group, received |-> result, produced |-> out])
    /\ result' = out
    /\ pc' = next
    /\ UNCHANGED <<params, pipeExc, outcomes, sanVars, opVars, restVars>>

\* an exception leaves apply_params: the call is over without a return value
Raised(exc) ==
    /\ pc' = "raised"
    /\ pipeExc' = exc
    /\ outcomes' = Append(outcomes, [exc |-> exc, out |-> NoImage])
    /\ UNCHANGED <<params, result, stages, sanVars, opVars, restVars>>

\* line 55: a call starts (the first, or a further one on the same arguments)
Enter ==
    /\ pc \in {"ready", "raised"}
    /\ Len(outcomes) < MaxCalls
    /\ result' = image
    /\ stages' = <<>>
    /\ pipeExc' = ""
    /\ pc' = "basic"
    /\ UNCHANGED <<params, outcomes, sanVars, opVars, restVars>>

\* lines 58-64
BasicStage ==
    /\ pc = "basic"
    /\ LET b  == params.basic
           r1 == adjust_exposure(result, b.exposure)
           r2 == adjust_contrast(r1, b.contrast)
           r3 == adjust_highlights(r2, b.highlights)
           r4 == adjust_shadows(r3, b.shadows)
           r5 == adjust_whites(r4, b.whites)
       IN Ran("basic", adjust_blacks(r5, b.blacks), "color")

\* lines 67-71
ColorStage ==
    /\ pc = "color"
    /\ LET c  == params.color
           r1 == adjust_temperature(result, c.temperature)
           r2 == adjust_tint(r1, c.tint)
           r3 == adjust_vibrance(r2, c.vibrance)
       IN Ran("color", adjust_saturation(r3, c.saturation), "tone_curve")

\* lines 74-78
ToneCurveStage ==
    /\ pc = "tone_curve"
    /\ LET tc == params.tone_curve IN
         IF ToneCurveRaises(tc.points, tc.red, tc.green, tc.blue)
         THEN Raised("ValueError")
         ELSE Ran("tone_curve",
                  apply_tone_curve(result, tc.points, tc.red, tc.green, tc.blue), "hsl")

\* lines 81-82
HslStage ==
    /\ pc = "hsl"
    /\ Ran("hsl", adjust_hsl(result, params.hsl), "split_toning")

\* lines 85-92: the attribute image_ops.apply_split_toning_3way is looked up before
\* any argument is evaluated, and image_ops defines no such function.  Lines 94-104
\* (the effects stage, which also names adjust_texture, apply_fade and
\* apply_sharpening, and the return of the clipped result) are never reached.
SplitToningStage ==
    /\ pc = "split_toning"
    /\ "apply_split_toning_3way" \notin ImageOpsNames
    /\ Raised("AttributeError")

PipeNext ==
    \/ Enter \/ BasicStage \/ ColorStage \/ ToneCurveStage \/ HslStage
    \/ SplitToningStage

SpecPipe == PipeInit /\ [][PipeNext]_vars

Finished == pc \in {"raised", "returned"}

\* C6: for every input image, apply_params(image, ColorParams.identity()) completes
\* and returns an image equal to the input, pixel for pixel.
C6_IdentityReturnsInput ==
    (Finished /\ params = IdentityParams) => (pc = "returned" /\ result = image)

\* C8: for every valid ColorParams and every input image with values in [0, 1],
\* apply_params returns an image of the same shape whose every value lies in [0, 1].
C8_OutputInUnitRange ==
    Finished =>
        /\ pipeExc = ""
        /\ result.h = image.h /\ result.w = image.w /\ Len(result.px) = Len(image.px)
        /\ \A i \in 1..Len(result.px) : \A c \in 1..3 : result.px[i][c] \in 0..Q

StageOrder == <<"basic", "color", "tone_curve", "hsl", "split_toning", "effects">>

\* C9: apply_params always runs the stage groups in the fixed order basic, color,
\* tone curve, HSL, split toning, effects, whatever the parameter values; each stage
\* receives the previous stage's output.
C9_FixedStageOrder ==
    Finished =>
        /\ [i \in 1..Len(stages) |-> stages[i].group] = StageOrder
        /\ stages[1].received = image
        /\ \A i \in 2..Len(stages) : stages[i].received = stages[i - 1].produced

\* C10: two invocations of apply_params with equal input images and equal
\* ColorParams (effects.grain > 0 included) return equal output images.
C10_Deterministic ==
    \A i \in 1..Len(outcomes) : \A j \in 1..Len(outcomes) :
        /\ outcomes[i].exc = ""
        /\ outcomes[i].out = outcomes[j].out

---------------------------------------------------------------------------
(* ImageProcessor.create_selection_mask and apply_local_adjustments,        *)
(* services/image_processor.py lines 106-192.  Region coordinates are kept  *)
(* in QUARTERS (n stands for n/4), mask values in sixteenths.               *)

MaxAdj == 2   \* local_adjustments lists have at most MaxAdj entries

\* apply_params as one call: the exception that ends it (see the stage actions
\* above: the tone-curve stage may raise, the split-toning stage always does)
apply_params(img, p) ==
    LET tc == p.tone_curve IN
    IF ToneCurveRaises(tc.points, tc.red, tc.green, tc.blue)
    THEN [exc |-> "ValueError", out |-> NoImage]
    ELSE [exc |-> "AttributeError", out |-> NoImage]

\* ColorParams(<keywords of> params_dict) for a dict that validates: the numeric
\* fields of basic, color and effects it gives, defaults elsewhere
ParamsFrom(d) ==
    [sec \in DOMAIN IdentityParams |->
        IF sec \in {"basic", "color", "effects"} /\ Has(d, sec)
        THEN [k \in DOMAIN IdentityParams[sec] |->
                IF Has(Pay(d[sec]), k) THEN Pay(Pay(d[sec])[k])
                ELSE IdentityParams[sec][k]]
        ELSE IdentityParams[sec]]

\* int(a / b) for b > 0: truncation towards zero
Trunc(a, b) == IF a >= 0 THEN a \div b ELSE -((-a) \div b)

\* the positions start..stop-1 that the slice [start:stop] selects on an axis of
\* length n
SliceOf(start, stop, n) ==
    LET norm(i) == IF i < 0 THEN Max(i + n, 0) ELSE Min(i, n) IN
    {i \in 0..(n - 1) : norm(start) <= i /\ i < norm(stop)}

\* lines 119-137: the hard mask (0 or 1 per pixel, rows first)
HardMask(h, w, r) ==
    LET px == Trunc(r.x * w, 4)
        py == Trunc(r.y * h, 4)
        pw == Trunc(r.width * w, 4)
        ph == Trunc(r.height * h, 4)
        inRect(xx, yy) == yy \in SliceOf(py, py + ph, h) /\ xx \in SliceOf(px, px + pw, w)
        \* ((xx - cx) / rx) ** 2 + ((yy - cy) / ry) ** 2 <= 1, with cx = px + pw / 2
        inEllipse(xx, yy) ==
            /\ pw >= 2 /\ ph >= 2
            /\ (2 * xx - 2 * px - pw) * (2 * xx - 2 * px - pw) * ph * ph
               + (2 * yy - 2 * py - ph) * (2 * yy - 2 * py - ph) * pw * pw
               <= pw * pw * ph * ph
    IN [i \in 1..(h * w) |->
          LET xx == (i - 1) % w
              yy == (i - 1) \div w IN
          IF \/ r.type = "rect" /\ inRect(xx, yy)
             \/ r.type = "ellipse" /\ inEllipse(xx, yy)
          THEN 1 ELSE 0]

\* cv2.GaussianBlur with a 3x3 kernel and sigma 0 (line 144): the separable kernel
\* (1/4, 1/2, 1/4) with the border reflected around the edge pixel; the result is
\* in sixteenths
GaussianBlur3(h, w, m) ==
    LET refl(i, n) == IF n = 1 THEN 0 ELSE IF i < 0 THEN -i ELSE IF i >= n THEN 2 * n - 2 - i ELSE i
        k(d) == IF d = 0 THEN 2 ELSE 1
        at(xx, yy) == m[refl(yy, h) * w + refl(xx, w) + 1]
    IN [i \in 1..(h * w) |->
          LET xx == (i - 1) % w
              yy == (i - 1) \div w
              cell(dx, dy) == k(dx) * k(dy) * at(xx + dx, yy + dy)
          IN cell(-1, -1) + cell(0, -1) + cell(1, -1)
             + cell(-1, 0) + cell(0, 0) + cell(1, 0)
             + cell(-1, 1) + cell(0, 1) + cell(1, 1)]

\* create_selection_mask (lines 106-146).  An ellipse with rx < 1 or ry < 1
\* returns the empty mask unblurred (line 131).  blur_size of line 141 is 1 for
\* every image of fewer than 20 rows or columns and every feather below 1000, so
\* the kernel is 3x3.
create_selection_mask(h, w, r) ==
    LET hard == HardMask(h, w, r)
        degenerate == r.type = "ellipse"
                      /\ (Trunc(r.width * w, 4) < 2 \/ Trunc(r.height * h, 4) < 2)
    IN IF r.feather > 0 /\ ~degenerate THEN GaussianBlur3(h, w, hard)
       ELSE [i \in 1..(h * w) |-> 16 * hard[i]]

\* line 189: mask_3d * local_result + (1.0 - mask_3d) * result
Blend(mask, local, res) ==
    [res EXCEPT !.px = [i \in 1..Len(res.px) |-> [c \in 1..3 |->
        (mask[i] * local.px[i][c] + (16 - mask[i]) * res.px[i][c]) \div 16]]]

\* the regions of the adjustments: region.get(key, default) has filled in the
\* keys a dict leaves out; x = 5 is 1.25 and x = -1 is -0.25
Regions ==
    {[type |-> "rect", x |-> 0, y |-> 0, width |-> 0, height |-> 0, feather |-> 20],
     [type |-> "rect", x |-> 0, y |-> 0, width |-> 4, height |-> 4, feather |-> 0],
     [type |-> "rect", x |-> 2, y |-> 0, width |-> 2, height |-> 4, feather |-> 20],
     [type |-> "ellipse", x |-> 0, y |-> 0, width |-> 4, height |-> 4, feather |-> 0],
     [type |-> "rect", x |-> 5, y |-> 0, width |-> 4, height |-> 4, feather |-> 20],
     [type |-> "rect", x |-> -1, y |-> 0, width |-> 8, height |-> 4, feather |-> 0],
     [type |-> "rect", x |-> 0, y |-> 0, width |-> 4, height |-> 4, feather |-> 150],
     [type |-> "circle", x |-> 0, y |-> 0, width |-> 4, height |-> 4, feather |-> 0]}

\* SelectionRegion (schemas/grading.py lines 23-29): the declared domain of a region
RegionIsValid(r) ==
    /\ r.type \in {"rect", "ellipse"}
    /\ \A k \in {"x", "y", "width", "height"} : 0 <= r[k] /\ r[k] <= 4
    /\ 0 <= r.feather /\ r.feather <= 100

\* parameters of an adjustment: none, an exposure of +1 EV, an exposure of +10 EV
\* (out of range)
LocalParams ==
    {EmptyDict, One("basic", Dict(One("exposure", Num(2)))),
     One("basic", Dict(One("exposure", Num(20))))}

Adjustments ==
    SeqsUpTo([region : Regions, parameters : LocalParams], MaxAdj)

\* the arguments: the image, a global result of its shape, the adjustment list
LocInit ==
    /\ image \in Images
    /\ \E adjs \in Adjustments :
          loc = [pc |-> "called", global_result |-> adjust_exposure(image, 2),
                 adjs |-> adjs, i |-> 1, result |-> NoImage, masks |-> <<>>,
                 exc |-> "", out |-> NoImage]
    /\ opName = "idle" /\ opArg = 0 /\ opOut = NoImage /\ opExc = ""
    /\ SanIdle /\ PipeIdle /\ IdleExcept("loc")

\* lines 160-164
LocEnter ==
    /\ loc.pc = "called"
    /\ loc' = IF loc.adjs = <<>>
              THEN [loc EXCEPT !.pc = "returned", !.out = loc.global_result]
              ELSE [loc EXCEPT !.pc = "loop", !.result = loc.global_result]
    /\ UNCHANGED <<sanVars, opVars, pipeVars, ext, prev, cfg, sel, svcVars>>

\* lines 166-190: one pass of the loop for the adjustment loc.adjs[loc.i].  No pass
\* gets past the call of apply_params (line 186), so line 192, the return of the
\* clipped result, is reached by no call with a non-empty list.
LocStep ==
    /\ loc.pc = "loop"
    /\ loc.i <= Len(loc.adjs)
    /\ LET adj == loc.adjs[loc.i] IN
         IF ColorParams(adj.parameters) # {}
         THEN loc' = [loc EXCEPT !.pc = "raised", !.exc = "ValidationError"]
         ELSE LET mask == create_selection_mask(image.h, image.w, adj.region)
                  built == Append(loc.masks, [region |-> adj.region, mask |-> mask])
                  local == apply_params(image, ParamsFrom(adj.parameters))
              IN IF local.exc # ""
                 THEN loc' = [loc EXCEPT !.pc = "raised", !.exc = local.exc,
                                         !.masks = built]
                 ELSE loc' = [loc EXCEPT !.i = @ + 1, !.masks = built,
                                         !.result = Blend(mask, local.out, @)]
    /\ UNCHANGED <<sanVars, opVars, pipeVars, ext, prev, cfg, sel, svcVars>>

LocNext == LocEnter \/ LocStep

SpecLocal == LocInit /\ [][LocNext]_vars

\* C11: apply_local_adjustments is a left fold over the adjustment list: the call
\* returns, an empty list returns the global result unchanged, and at every pixel
\* where the last region's mask is 1 the output is the last region's grade of the
\* original image.
C11_LeftFold ==
    loc.pc \in {"returned", "raised"} =>
        /\ loc.pc = "returned"
        /\ loc.adjs = <<>> => loc.out = loc.global_result
        /\ loc.adjs # <<>> =>
             /\ Len(loc.masks) = Len(loc.adjs)
             /\ LET last == loc.adjs[Len(loc.adjs)]
                    grade == apply_params(image, ParamsFrom(last.parameters)).out
                IN \A i \in 1..Len(loc.out.px) :
                      loc.masks[Len(loc.masks)].mask[i] = 16 => loc.out.px[i] = grade.px[i]

\* C12: apply_local_adjustments never builds a mask from a malformed region (x, y,
\* width or height outside [0, 1], feather outside [0, 100], unknown type).
C12_MalformedRegionBuildsNoMask ==
    \A i \in 1..Len(loc.masks) : RegionIsValid(loc.masks[i].region)

---------------------------------------------------------------------------
(* ColorParams built straight from a caller's dict, without the sanitizer:  *)
(* the parameters field of PreviewRequest and ExportRequest                 *)
(* (schemas/grading.py lines 37-45) and the tests of test_color_params.py.  *)

Validate ==
    /\ sanSt = "init"
    /\ valSt = "none"
    /\ LET errs == ColorParams(raw) IN
         /\ valErrs' = errs
         /\ valSt' = IF errs = {} THEN "ok" ELSE "error"
    /\ UNCHANGED <<raw, san, sanSt, sanExc, opVars, pipeVars, restVars>>

SpecValidate == SanInit /\ [][Validate]_vars

\* a number (or numeric string) within [lo, hi] under every declared key present
FieldsInRange(x, fields) ==
    IsDict(x) /\ \A fld \in {g \in fields : Has(Pay(x), g.key)} :
        /\ Kind(Pay(x)[fld.key]) \in {"num", "numstr"}
        /\ fld.lo <= Pay(Pay(x)[fld.key]) /\ Pay(Pay(x)[fld.key]) <= fld.hi

\* every point of the curve is a pair of integers in [0, 255]
IsCurveOfPairs(x) ==
    IsList(x) /\ \A i \in 1..Len(Pay(x)) :
        LET p == Pay(x)[i] IN
        /\ IsList(p) /\ Len(Pay(p)) = 2
        /\ \A j \in 1..2 : /\ Kind(Pay(p)[j]) \in {"num", "numstr"}
                           /\ Pay(Pay(p)[j]) % 2 = 0
                           /\ 0 <= Pay(Pay(p)[j]) /\ Pay(Pay(p)[j]) <= 510

\* C13: constructing ColorParams fails whenever a numeric field of basic, color or
\* effects is outside its declared range, or a tone-curve control point is not a
\* pair of integers in [0, 255]: what is accepted is within the declared domain.
C13_RejectsOutOfDomain ==
    valSt = "ok" =>
        /\ Has(raw, "basic") => FieldsInRange(raw["basic"], BasicFields)
        /\ Has(raw, "color") => FieldsInRange(raw["color"], ColorFields)
        /\ Has(raw, "effects") => FieldsInRange(raw["effects"], EffectsFields)
        /\ Has(raw, "tone_curve") =>
             /\ IsDict(raw["tone_curve"])
             /\ \A k \in DOMAIN Pay(raw["tone_curve"]) :
                    \/ IsCurveOfPairs(Pay(raw["tone_curve"])[k])
                    \/ k # "points" /\ Kind(Pay(raw["tone_curve"])[k]) = "null"

---------------------------------------------------------------------------
(* services/ai_provider.py: JSON extraction from an AI response.  A text is *)
(* a sequence of characters over the alphabet                               *)
(*   [ ] { } " \ , : 1 a j s o n # space newline    (# is the backtick)    *)
(* so that a number is a run of the digit 1, no literal (true, false, null) *)
(* can be spelled and the escapes that can occur are \" \\ \n.              *)

Whitespace == {" ", "\n"}

\* str.lstrip / str.rstrip with the character set S
RECURSIVE LStrip(_, _)
LStrip(t, S) == IF t # <<>> /\ Head(t) \in S THEN LStrip(Tail(t), S) ELSE t

RECURSIVE RStrip(_, _)
RStrip(t, S) ==
    IF t # <<>> /\ t[Len(t)] \in S THEN RStrip(SubSeq(t, 1, Len(t) - 1), S) ELSE t

Strip(t) == RStrip(LStrip(t, Whitespace), Whitespace)

StartsWith(t, pre) == Len(t) >= Len(pre) /\ SubSeq(t, 1, Len(pre)) = pre

\* the first index of t not below i that holds no whitespace, Len(t) + 1 if none
RECURSIVE SkipWs(_, _)
SkipWs(t, i) == IF i <= Len(t) /\ t[i] \in Whitespace THEN SkipWs(t, i + 1) ELSE i

\* json.loads: a parse result is [ok, nxt, val], nxt the index after the value;
\* values are <<"num", digits>>, <<"str", characters>>, <<"arr", sequence>> and
\* <<"obj", function from keys to values>> (a repeated key keeps its last value)
NoParse == [ok |-> FALSE, nxt |-> 0, val |-> <<"none", 0>>]
Parsed(nxt, val) == [ok |-> TRUE, nxt |-> nxt, val |-> val]

\* the string whose opening quote precedes index i
RECURSIVE ParseString(_, _, _)
ParseString(t, i, acc) ==
    IF i > Len(t) THEN NoParse
    ELSE IF t[i] = "\"" THEN Parsed(i + 1, <<"str", acc>>)
    ELSE IF t[i] = "\\" THEN
        IF i + 1 <= Len(t) /\ t[i + 1] \in {"\"", "\\", "n"}
        THEN ParseString(t, i + 2, Append(acc, IF t[i + 1] = "n" THEN "\n" ELSE t[i + 1]))
        ELSE NoParse
    ELSE IF t[i] = "\n" THEN NoParse      \* a control character inside a string
    ELSE ParseString(t, i + 1, Append(acc, t[i]))

RECURSIVE ParseNumber(_, _)
ParseNumber(t, i) ==
    IF i + 1 <= Len(t) /\ t[i + 1] = "1"
    THEN LET r == ParseNumber(t, i + 1) IN Parsed(r.nxt, <<"num", <<"1">> \o r.val[2]>>)
    ELSE Parsed(i + 1, <<"num", <<"1">> >>)

RECURSIVE ParseValue(_, _)
RECURSIVE ParseItems(_, _, _)
RECURSIVE ParseMembers(_, _, _)

\* the value that starts at index i
ParseValue(t, i) ==
    IF i > Len(t) THEN NoParse
    ELSE CASE t[i] = "\"" -> ParseString(t, i + 1, <<>>)
           [] t[i] = "1" -> ParseNumber(t, i)
           [] t[i] = "[" ->
                LET j == SkipWs(t, i + 1) IN
                IF j <= Len(t) /\ t[j] = "]" THEN Parsed(j + 1, <<"arr", <<>> >>)
                ELSE ParseItems(t, j, <<>>)
           [] t[i] = "{" ->
                LET j == SkipWs(t, i + 1) IN
                IF j <= Len(t) /\ t[j] = "}" THEN Parsed(j + 1, <<"obj", <<>> >>)
                ELSE ParseMembers(t, j, <<>>)
           [] OTHER -> NoParse

\* the items of an array from index i, which must hold a value
ParseItems(t, i, acc) ==
    LET v == ParseValue(t, i)
        j == SkipWs(t, v.nxt) IN
    IF ~v.ok \/ j > Len(t) THEN NoParse
    ELSE IF t[j] = "," THEN ParseItems(t, SkipWs(t, j + 1), Append(acc, v.val))
    ELSE IF t[j] = "]" THEN Parsed(j + 1, <<"arr", Append(acc, v.val)>>)
    ELSE NoParse

\* the members of an object from index i, which must hold the quote of a key
ParseMembers(t, i, acc) ==
    IF i > Len(t) \/ t[i] # "\"" THEN NoParse
    ELSE LET k == ParseString(t, i + 1, <<>>)
             c == SkipWs(t, k.nxt) IN
         IF ~k.ok \/ c > Len(t) \/ t[c] # ":" THEN NoParse
         ELSE LET v == ParseValue(t, SkipWs(t, c + 1))
                  j == SkipWs(t, v.nxt)
                  more == [x \in (DOMAIN acc) \cup {k.val[2]} |->
                              IF x = k.val[2] THEN v.val ELSE acc[x]] IN
              IF ~v.ok \/ j > Len(t) THEN NoParse
              ELSE IF t[j] = "," THEN ParseMembers(t, SkipWs(t, j + 1), more)
              ELSE IF t[j] = "}" THEN Parsed(j + 1, <<"obj", more>>)
              ELSE NoParse

\* json.loads(t): the value, or ok = FALSE for JSONDecodeError
json_loads(t) ==
    LET v == ParseValue(t, SkipWs(t, 1)) IN
    IF v.ok /\ SkipWs(t, v.nxt) = Len(t) + 1 THEN v ELSE NoParse

\* str.find / str.rfind of one character: the first / last index, 0 when absent
Find(t, ch) ==
    IF \E i \in 1..Len(t) : t[i] = ch
    THEN CHOOSE i \in 1..Len(t) : t[i] = ch /\ \A j \in 1..(i - 1) : t[j] # ch
    ELSE 0

RFind(t, ch) ==
    IF \E i \in 1..Len(t) : t[i] = ch
    THEN CHOOSE i \in 1..Len(t) : t[i] = ch /\ \A j \in (i + 1)..Len(t) : t[j] # ch
    ELSE 0

\* the three backticks of a markdown fence; the backtick is written "#"
Fence == <<"#", "#", "#">>

\* _extract_json lines 80-81: re.sub of an opening fence, an optional json and
\* whitespace at the start, and of whitespace and a fence at the end, by the
\* empty string
StripFences(t) ==
    LET a == IF StartsWith(t, Fence) THEN SubSeq(t, 4, Len(t)) ELSE t
        b == IF StartsWith(t, Fence) /\ StartsWith(a, <<"j", "s", "o", "n">>)
             THEN SubSeq(a, 5, Len(a)) ELSE a
        c == IF StartsWith(t, Fence) THEN LStrip(b, Whitespace) ELSE b
    IN IF Len(c) >= 3 /\ SubSeq(c, Len(c) - 2, Len(c)) = Fence
       THEN RStrip(SubSeq(c, 1, Len(c) - 3), Whitespace)
       ELSE c

\* the loop of _repair_truncated_json over the characters lo..hi, run as its
\* first half and then its second; st holds depth, in_string, escape_next and
\* last, the 1-based index of the closing brace of the last complete top-level
\* object (0: none), one more than Python's last_complete_end
RECURSIVE BraceScan(_, _, _, _)
BraceScan(t, lo, hi, st) ==
    IF lo > hi THEN st
    ELSE IF st.escape_next /\ lo = hi THEN [st EXCEPT !.escape_next = FALSE]
    ELSE IF lo < hi
         THEN BraceScan(t, ((lo + hi) \div 2) + 1, hi, BraceScan(t, lo, (lo + hi) \div 2, st))
    ELSE IF t[lo] = "\\" THEN [st EXCEPT !.escape_next = st.in_string]
    ELSE IF t[lo] = "\"" THEN [st EXCEPT !.in_string = ~st.in_string]
    ELSE IF st.in_string THEN st
    ELSE IF t[lo] = "{" THEN [st EXCEPT !.depth = @ + 1]
    ELSE IF t[lo] = "}" THEN [st EXCEPT !.depth = @ - 1,
                                        !.last = IF st.depth = 1 THEN lo ELSE @]
    ELSE st

\* last_complete_end > 0 is last > 1 here
repair_truncated_json(text) ==
    LET t == Strip(text)
        last == BraceScan(t, 1, Len(t), [depth |-> 0, in_string |-> FALSE,
                                         escape_next |-> FALSE, last |-> 0]).last
        repaired == RStrip(RStrip(SubSeq(t, 1, last), Whitespace), {","}) \o <<"\n", "]">>
    IN IF ~StartsWith(t, <<"[">>) THEN t
       ELSE IF last > 1 /\ json_loads(repaired).ok THEN repaired
       ELSE t

\* Candidate, were the end the first end_char instead of the last
CandidateToFirstEnd(t, start_char, end_char) ==
    LET start == Find(t, start_char)
        end == Find(t, end_char) IN
    IF start # 0 /\ end # 0 /\ end > start /\ json_loads(SubSeq(t, start, end)).ok
    THEN <<SubSeq(t, start, end)>> ELSE <<>>

\* one turn of the loop of lines 93-102: the substring from the first
\* start_char to the last end_char when it parses, as a list of 0 or 1 texts
Candidate(t, start_char, end_char) ==
    LET start == Find(t, start_char)
        end == RFind(t, end_char) IN
    IF start # 0 /\ end # 0 /\ end > start /\ json_loads(SubSeq(t, start, end)).ok
    THEN <<SubSeq(t, start, end)>> ELSE <<>>

\* max(candidates, key=len) returns the first of the longest
extract_json(text) ==
    LET t == Strip(StripFences(Strip(text)))
        candidates == Candidate(t, "[", "]") \o Candidate(t, "{", "}")
        repaired == repair_truncated_json(t)
    IN IF text = <<>> THEN <<>>
       ELSE IF json_loads(t).ok THEN t
       ELSE IF candidates # <<>>
            THEN IF Len(candidates) = 2 /\ Len(candidates[2]) > Len(candidates[1])
                 THEN candidates[2] ELSE candidates[1]
       ELSE IF repaired # t THEN repaired
       ELSE t

\* response[:300] of line 205
PreviewLen == 300

\* ParseOutcome, were the whole response put in the message
ParseOutcomeWholePreview(response, extracted, v) ==
    IF response = <<>>
    THEN [exc |-> "ValueError", preview |-> <<>>, ret |-> NoParse.val, extracted |-> <<>>]
    ELSE IF v.ok THEN [exc |-> "", preview |-> <<>>, ret |-> v.val, extracted |-> extracted]
    ELSE [exc |-> "ValueError", preview |-> response, ret |-> NoParse.val,
          extracted |-> extracted]

\* _parse_json_response lines 196-213, given the text extracted and the result v
\* of json.loads on it: the value returned, or the ValueError raised with the
\* preview its message carries (none for an empty response, which is not
\* handed to _extract_json)
ParseOutcome(response, extracted, v) ==
    IF response = <<>>
    THEN [exc |-> "ValueError", preview |-> <<>>, ret |-> NoParse.val, extracted |-> <<>>]
    ELSE IF v.ok THEN [exc |-> "", preview |-> <<>>, ret |-> v.val, extracted |-> extracted]
    ELSE [exc |-> "ValueError",
          preview |-> SubSeq(response, 1, Min(PreviewLen, Len(response))),
          ret |-> NoParse.val, extracted |-> extracted]

\* lines 201-203: json.loads of the text extracted
LoadExtracted(response, extracted) == ParseOutcome(response, extracted, json_loads(extracted))

parse_json_response(response) == LoadExtracted(response, extract_json(response))

---------------------------------------------------------------------------
(* The AI responses tried, each with how it was made: the JSON text J it     *)
(* was built around (<<>> when none), the prose put around J and, for a      *)
(* truncated array, the count k of complete objects in front of the partial  *)
(* one.                                                                      *)

MaxComplete == 3

Q1 == <<"\"">>

\* {"a":1}   {"s":[1]}   {"j":{"a":1}}
ObjA == <<"{">> \o Q1 \o <<"a">> \o Q1 \o <<":", "1", "}">>
ObjS == <<"{">> \o Q1 \o <<"s">> \o Q1 \o <<":", "[", "1", "]", "}">>
ObjJ == <<"{">> \o Q1 \o <<"j">> \o Q1 \o <<":">> \o ObjA \o <<"}">>

Objs == <<ObjA, ObjS, ObjJ>>
NthObj(i) == Objs[((i - 1) % Len(Objs)) + 1]

RECURSIVE JoinObjs(_)
\* the first k objects separated by a comma and a space
JoinObjs(k) == IF k = 1 THEN NthObj(1) ELSE JoinObjs(k - 1) \o <<",", " ">> \o NthObj(k)

\* the partial objects a cut can leave:  {"a   {"a":   {"a":"}   {"j":{"a":1},"s
Partials ==
    { <<"{">> \o Q1 \o <<"a">>,
      <<"{">> \o Q1 \o <<"a">> \o Q1 \o <<":">>,
      <<"{">> \o Q1 \o <<"a">> \o Q1 \o <<":">> \o Q1 \o <<"}">>,
      <<"{">> \o Q1 \o <<"j">> \o Q1 \o <<":">> \o ObjA \o <<",">> \o Q1 \o <<"s">> }

Truncated(k, partial) == <<"[">> \o JoinObjs(k) \o <<",", "\n">> \o partial

\* the JSON objects and arrays J:  the objects above,  [1]   [{"a":1}, {"s":[1]}]
\* [{"a":1}]   {"a":"]"}   ["{", "a\"s"]   {}
JTexts ==
    { ObjA, ObjS, ObjJ,
      <<"[", "1", "]">>,
      <<"[">> \o JoinObjs(2) \o <<"]">>,
      <<"[">> \o ObjA \o <<"]">>,
      <<"{">> \o Q1 \o <<"a">> \o Q1 \o <<":">> \o Q1 \o <<"]">> \o Q1 \o <<"}">>,
      <<"[">> \o Q1 \o <<"{">> \o Q1 \o <<",", " ">> \o Q1 \o <<"a", "\\", "\"", "s">> \o Q1 \o <<"]">>,
      <<"{", "}">> }

Tag == <<"j", "s", "o", "n">>

\* J in a markdown code fence, with or without the json tag
Fenced(J, tagged) ==
    Fence \o (IF tagged THEN Tag ELSE <<>>) \o <<"\n">> \o J \o <<"\n">> \o Fence

\* prose without a bracket, in pairs (before, after):  (so: , a)  (", ")  (a:1 , ,)
Proses ==
    { <<<<"s", "o", ":", " ">>, <<" ", "a">>>>,
      <<Q1, Q1>>,
      <<<<"a", ":", "1", "\n">>, <<",">>>> }

BracketFree(t) == \A i \in 1..Len(t) : t[i] \notin {"[", "]", "{", "}"}

\* texts in which the prose around the JSON has brackets of its own:
\* [a] {"a":1} {s}     [1] [1,1,1] ] {}     {a} [1]     {"a":1} a [1, 1, 1, 1] {
BracketProse ==
    { <<"[", "a", "]", " ">> \o ObjA \o <<" ", "{", "s", "}">>,
      <<"[", "1", "]", " ", "[", "1", ",", "1", ",", "1", "]", " ", "]", " ", "{", "}">>,
      <<"{", "a", "}", " ", "[", "1", "]">>,
      ObjA \o <<" ", "a", " ", "[", "1", ",", "1", ",", "1", ",", "1", "]", " ", "{">> }

\* a response longer than the preview, with a last character of its own
LongText == [i \in 1..(PreviewLen + 2) |-> IF i <= PreviewLen + 1 THEN "a" ELSE "s"]

\* responses that hold no JSON:  a   json   { "a   the blank   the long one
Junk ==
    { <<"a">>, Tag, <<"{", " ">> \o Q1 \o <<"a">>, <<" ">>, <<"[", "1", ",">>, LongText }

Made(text, how, J, prose, k) ==
    [text |-> text, how |-> how, J |-> J, prose |-> prose, k |-> k]

Responses ==
    {Made(J, "plain", J, <<>>, 0) : J \in JTexts}
    \cup {Made(Fenced(J, tagged), "fenced", J, <<>>, 0) : J \in JTexts, tagged \in BOOLEAN}
    \cup {Made(p[1] \o J \o p[2], "prose", J, p[1] \o p[2], 0) : J \in JTexts, p \in Proses}
    \cup {Made(p[1] \o Fenced(J, TRUE) \o p[2], "prose", J, p[1] \o p[2], 0) : J \in JTexts, p \in Proses}
    \cup {Made(Truncated(k, partial), "truncated", <<>>, <<>>, k) :
             k \in 1..MaxComplete, partial \in Partials}
    \cup {Made(t, "brackets", <<>>, <<>>, 0) : t \in BracketProse}
    \cup {Made(t, "junk", <<>>, <<>>, 0) : t \in Junk}
    \cup {Made(<<>>, "empty", <<>>, <<>>, 0)}

ExtInit ==
    /\ \E r \in Responses :
          ext = [pc |-> "received", response |-> r.text, how |-> r.how, J |-> r.J,
                 prose |-> r.prose, k |-> r.k, op |-> "", extracted |-> <<>>, exc |-> "",
                 preview |-> <<>>, ret |-> NoParse.val]
    /\ SanIdle /\ OpsIdle /\ PipeIdle /\ IdleExcept("ext")

\* a direct call of _extract_json on the response
ExtractJson ==
    /\ ext.pc = "received"
    /\ ext' = [ext EXCEPT !.pc = "extracted", !.op = "_extract_json",
                          !.extracted = extract_json(ext.response)]
    /\ UNCHANGED <<sanVars, opVars, pipeVars, loc, prev, cfg, sel, svcVars>>

\* the four structured operations, by the context they hand to
\* _parse_json_response
Contexts == {"scene analysis", "style options", "preference analysis",
             "grading suggestions"}

\* the call x ended with the outcome r of _parse_json_response
Ended(x, context, r) ==
    [x EXCEPT !.pc = IF r.exc = "" THEN "returned" ELSE "raised", !.op = context,
              !.extracted = r.extracted, !.exc = r.exc, !.preview = r.preview,
              !.ret = r.ret]

\* the end of each of the four structured operations (lines 133-192), which
\* hands the response it got from analyze_image and its context to
\* _parse_json_response
ParseJsonResponse(context) ==
    /\ ext.pc = "received"
    /\ ext' = Ended(ext, context, parse_json_response(ext.response))
    /\ UNCHANGED <<sanVars, opVars, pipeVars, loc, prev, cfg, sel, svcVars>>

\* analyze_scene, generate_style_options, analyze_preferences or
\* generate_grading_suggestions
StructuredOperation == \E context \in Contexts : ParseJsonResponse(context)

ExtNext == ExtractJson \/ StructuredOperation

SpecExtract == ExtInit /\ [][ExtNext]_vars

Extracted == ext.pc = "extracted"

\* C14: a JSON array of objects cut off in the middle of an object, with k >= 1
\* complete objects in front of the partial one, is extracted as a text that
\* parses to the array of exactly those k objects in their order; this holds
\* for k = 1 too.
C14_TruncatedArrayKeepsCompleteObjects ==
    (Extracted /\ ext.how = "truncated") =>
        LET v == json_loads(ext.extracted) IN
        /\ v.ok
        /\ v.val = <<"arr", [i \in 1..ext.k |-> json_loads(NthObj(i)).val]>>

\* the response as _extract_json first tries to parse it (lines 78-82)
FenceStripped(text) == Strip(StripFences(Strip(text)))

\* the substrings of t that run from a [ to a ] or from a { to a } and parse
ValidSubstrings(t) ==
    LET opens == {i \in 1..Len(t) : t[i] \in {"[", "{"}}
        closer(i) == IF t[i] = "[" THEN "]" ELSE "}"
        spans == {p \in opens \X (1..Len(t)) :
                     p[1] < p[2] /\ t[p[2]] = closer(p[1])
                     /\ json_loads(SubSeq(t, p[1], p[2])).ok}
    IN {SubSeq(t, p[1], p[2]) : p \in spans}

\* C15: when the fence-stripped response does not parse but holds a substring
\* from [ to ] or from { to } that parses, _extract_json returns the longest
\* such substring, also when the prose around it has brackets of its own.
C15_LongestValidSubstring ==
    LET t == FenceStripped(ext.response)
        subs == ValidSubstrings(t) IN
    (Extracted /\ ~json_loads(t).ok /\ subs # {}) =>
        /\ ext.extracted \in subs
        /\ \A s \in subs : Len(s) <= Len(ext.extracted)

\* the text extracted parses to the value of J
ParsesToJ ==
    /\ json_loads(ext.extracted).ok
    /\ json_loads(ext.extracted).val = json_loads(ext.J).val

\* C16: for a JSON object or array J, a response that is J, J in a code fence
\* (with or without the json tag), or J (fenced or not) between prose with no
\* bracket and no double quote is extracted as a text that parses to J.
C16_ExtractsWrappedJson ==
    (Extracted /\ ext.how \in {"plain", "fenced", "prose"}
               /\ \A i \in 1..Len(ext.prose) : ext.prose[i] # "\"") => ParsesToJ

\* prose and a fence were around J, and the text extracted parses to J
C16_Witness ==
    /\ Extracted /\ ext.how = "prose" /\ ext.prose # <<>>
    /\ \A i \in 1..Len(ext.prose) : ext.prose[i] # "\""
    /\ \E i \in 1..Len(ext.response) : ext.response[i] = "#"
    /\ ext.extracted = ext.J
    /\ ParsesToJ

\* the same for every prose without a bracket, as first stated
C16_AnyBracketFreeProse ==
    (Extracted /\ ext.how \in {"plain", "fenced", "prose"} /\ BracketFree(ext.prose))
        => ParsesToJ

\* one of the four operations has ended
OperationEnded == ext.pc \in {"returned", "raised"}

---------------------------------------------------------------------------
(* services/image_processor.py: generate_preview.  Only the shape of the    *)
(* image matters.  scale and h * scale are IEEE doubles: a double is a pair *)
(* of a significand, a sequence of bits with the least significant first,   *)
(* and a count e of fraction bits, standing for significand * 2^-e.         *)

Significand == 53

RECURSIVE BitsInc(_, _)
\* the bits b plus one, adding from bit i upwards
BitsInc(b, i) ==
    IF i > Len(b) THEN Append(b, 1)
    ELSE IF b[i] = 0 THEN [b EXCEPT ![i] = 1]
    ELSE BitsInc([b EXCEPT ![i] = 0], i + 1)

RECURSIVE BitsToInt(_)
BitsToInt(b) == IF b = <<>> THEN 0 ELSE b[1] + 2 * BitsToInt(Tail(b))

\* round to nearest, ties to even: keep the Significand highest bits of b
RoundBits(b) ==
    LET d == Len(b) - Significand
        kept == SubSeq(b, d + 1, Len(b))
        up == b[d] = 1 /\ (kept[1] = 1 \/ \E i \in 1..(d - 1) : b[i] = 1)
    IN IF d <= 0 THEN [bits |-> b, dropped |-> 0]
       ELSE [bits |-> IF up THEN BitsInc(kept, 1) ELSE kept, dropped |-> d]

RECURSIVE LeadShift(_, _, _)
\* the least k >= from with a * 2^k >= b
LeadShift(a, b, from) == IF a * 2 ^ from >= b THEN from ELSE LeadShift(a, b, from + 1)

RECURSIVE DivBits(_, _, _, _)
\* long division: the first n bits of the quotient of r / den, for r < den, with
\* the bits acc found so far and the remainder r they leave
DivBits(r, den, n, acc) ==
    IF Len(acc) = n THEN [bits |-> acc, rem |-> r]
    ELSE IF 2 * r >= den THEN DivBits(2 * r - den, den, n, <<1>> \o acc)
    ELSE DivBits(2 * r, den, n, <<0>> \o acc)

\* a / b of two ints with 0 < a < b (line 44): the correctly rounded double
TrueDiv(a, b) ==
    LET k == LeadShift(a, b, 1)
        q == DivBits(a * 2 ^ (k - 1), b, Significand, <<>>)
        up == 2 * q.rem > b \/ (2 * q.rem = b /\ q.bits[1] = 1)
    IN [bits |-> IF up THEN BitsInc(q.bits, 1) ELSE q.bits,
        e |-> k + Significand - 1]

RECURSIVE BitsTimes(_, _, _, _)
\* the bits b times the int n: acc holds the low bits of the product found so
\* far, c the carry into the next one
BitsTimes(b, n, c, acc) ==
    LET i == Len(acc) + 1
        v == (IF i > Len(b) THEN 0 ELSE b[i] * n) + c IN
    IF i > Len(b) /\ c = 0 THEN acc
    ELSE BitsTimes(b, n, v \div 2, Append(acc, v % 2))

\* n * f for an int n >= 1 and a double f (line 46): the correctly rounded double
MulInt(n, f) ==
    LET r == RoundBits(BitsTimes(f.bits, n, 0, <<>>)) IN
    [bits |-> r.bits, e |-> f.e - r.dropped]

\* int(f) for a double f >= 0 with fraction bits (line 46)
TruncToInt(f) == BitsToInt(SubSeq(f.bits, f.e + 1, Len(f.bits)))

PREVIEW_MAX_WIDTH == 800

\* generate_preview on an image of shape (h, w); max_width 0 stands for None.
\* same: the input array itself is returned.  Image.resize raises ValueError
\* for a height below 1.
generate_preview(h, w, max_width_arg) ==
    LET max_width == IF max_width_arg = 0 THEN PREVIEW_MAX_WIDTH ELSE max_width_arg
        scale == TrueDiv(max_width, w)
        new_w == max_width
        new_h == TruncToInt(MulInt(h, scale))
    IN IF w <= max_width THEN [exc |-> "", same |-> TRUE, h |-> h, w |-> w]
       ELSE IF new_h < 1 THEN [exc |-> "ValueError", same |-> FALSE, h |-> 0, w |-> 0]
       ELSE [exc |-> "", same |-> FALSE, h |-> new_h, w |-> new_w]

MaxShape == 24

\* the shapes (h, w) of the images tried: the small ones, and a 16:9 photo, a
\* square, a 4:3 photo and a one-row strip wider than the default max_width
Shapes ==
    ((1..MaxShape) \X (1..MaxShape))
    \cup {<<639, 1136>>, <<1078, 1078>>, <<3000, 4000>>, <<1, 2000>>}

\* max_width as the caller gives it: 0 for None
MaxWidths == {0, 13, 15}

PrevInit ==
    /\ \E s \in Shapes, mw \in MaxWidths :
          prev = [pc |-> "called", h |-> s[1], w |-> s[2], max_width |-> mw,
                  exc |-> "", same |-> FALSE, out_h |-> 0, out_w |-> 0]
    /\ SanIdle /\ OpsIdle /\ PipeIdle /\ IdleExcept("prev")

\* the call of generate_preview, lines 37-50
GeneratePreview ==
    /\ prev.pc = "called"
    /\ LET r == generate_preview(prev.h, prev.w, prev.max_width) IN
         prev' = [prev EXCEPT !.pc = IF r.exc = "" THEN "returned" ELSE "raised",
                              !.exc = r.exc, !.same = r.same,
                              !.out_h = r.h, !.out_w = r.w]
    /\ UNCHANGED <<sanVars, opVars, pipeVars, loc, ext, cfg, sel, svcVars>>

SpecPreview == PrevInit /\ [][GeneratePreview]_vars

\* the max_width in force
EffectiveMaxWidth == IF prev.max_width = 0 THEN PREVIEW_MAX_WIDTH ELSE prev.max_width

\* C18: generate_preview returns the input image itself when its width is at
\* most max_width; otherwise it returns an image of width max_width and of height
\* floor(h * max_width / w); the result is never larger than the input.
C18_PreviewShape ==
    prev.pc \in {"returned", "raised"} =>
        /\ prev.pc = "returned"
        /\ IF prev.w <= EffectiveMaxWidth
           THEN prev.same /\ prev.out_h = prev.h /\ prev.out_w = prev.w
           ELSE /\ prev.out_w = EffectiveMaxWidth
                /\ prev.out_h = (prev.h * EffectiveMaxWidth) \div prev.w
        /\ prev.out_w <= prev.w /\ prev.out_h <= prev.h

---------------------------------------------------------------------------
(* api/ai_config.py: the provider configuration and the bodies of its       *)
(* responses.  A key, a model name and a base URL are texts; the keys tried  *)
(* are texts over the characters x 7 *, none of which occurs in the fixed    *)
(* text of a body (field names, provider names, labels, default models), so  *)
(* that such a key occurs in a body only inside a field that a call fills    *)
(* in.  A string without these characters is a text of one symbol.           *)

MaxPuts == 2

\* None
NoText == <<"None">>

available_providers == {<<"claude">>, <<"openai">>, <<"deepseek">>, <<"glm">>}

Stars(n) == [i \in 1..n |-> "*"]

\* _mask_key, lines 47-53
MaskKey(key) ==
    IF key = NoText \/ key = <<>> THEN <<>>
    ELSE IF Len(key) <= 8 THEN Stars(Len(key))
    ELSE SubSeq(key, 1, 4) \o Stars(Len(key) - 8) \o SubSeq(key, Len(key) - 3, Len(key))

\* _get_api_key, lines 42-44
GetApiKey(keys, provider) == IF provider \in DOMAIN keys THEN keys[provider] ELSE <<>>

\* x or "" for a str or None x
OrEmpty(x) == IF x = NoText THEN <<>> ELSE x

\* the keys a PUT may carry: None, the empty one, x7 (2 long), x7x7x7x7 (8
\* long), x7x777x7x and x7x7*7x7x (9 long), *** and x7x7x77x7x7x (12 long)
Key9 == <<"x", "7", "x", "7", "7", "7", "x", "7", "x">>
ApiKeys ==
    { NoText, <<>>, <<"x", "7">>, <<"x", "7", "x", "7", "x", "7", "x", "7">>,
      Key9, [Key9 EXCEPT ![5] = "*"], Stars(3),
      <<"x", "7", "x", "7", "x", "7", "7", "x", "7", "x", "7", "x">> }

\* the model names and base URLs a PUT may carry
ModelNames == {NoText, <<"gpt-4o">>, Key9}
BaseUrls == {NoText, <<>>, <<"https://host/v1">>}
ProviderNames == {<<"claude">>, <<"openai">>, <<"invalid_provider">>}

\* the module state after import with the default settings (lines 19-39)
CfgInit ==
    /\ cfg = [pc |-> "serving", current_provider |-> <<"openai">>, current_model |-> NoText,
              current_base_url |-> <<>>, api_keys |-> <<>>, puts |-> 0,
              response |-> [of |-> "none"]]
    /\ SanIdle /\ OpsIdle /\ PipeIdle /\ IdleExcept("cfg")

\* PUT /api/ai/provider, lines 89-114
set_provider ==
    /\ cfg.puts < MaxPuts
    /\ \E provider \in ProviderNames, api_key \in ApiKeys,
          model \in ModelNames, base_url \in BaseUrls :
          IF provider \notin available_providers
          THEN cfg' = [cfg EXCEPT !.puts = @ + 1,
                          !.response = [of |-> "PUT", status_code |-> 400,
                                        detail |-> provider]]
          ELSE cfg' = [cfg EXCEPT
                          !.puts = @ + 1,
                          !.current_provider = provider,
                          !.current_model = model,
                          !.api_keys = IF api_key = NoText \/ api_key = <<>> THEN @
                                       ELSE [p \in (DOMAIN @) \cup {provider} |->
                                                IF p = provider THEN api_key ELSE @[p]],
                          !.current_base_url = IF base_url = NoText THEN @ ELSE base_url,
                          !.response = [of |-> "PUT", status_code |-> 200,
                                        status |-> <<"ok">>, provider |-> provider]]
    /\ UNCHANGED <<sanVars, opVars, pipeVars, loc, ext, prev, sel, svcVars>>

\* GET /api/ai/providers, lines 73-86: the fields that are not fixed
list_providers ==
    /\ LET api_key == GetApiKey(cfg.api_keys, cfg.current_provider) IN
         cfg' = [cfg EXCEPT
                   !.response = [of |-> "GET", status_code |-> 200,
                                 current |-> cfg.current_provider,
                                 model |-> OrEmpty(cfg.current_model),
                                 base_url |-> OrEmpty(cfg.current_base_url),
                                 api_key_masked |-> MaskKey(api_key),
                                 api_key_set |-> IF api_key # <<>> THEN <<"true">>
                                                 ELSE <<"false">>]]
    /\ UNCHANGED <<sanVars, opVars, pipeVars, loc, ext, prev, sel, svcVars>>

CfgNext == set_provider \/ list_providers

SpecConfig == CfgInit /\ [][CfgNext]_vars

\* the texts in the body of a response
BodyTexts(r) == {r[f] : f \in (DOMAIN r) \ {"of", "status_code"}}

\* the text k occurs in the text t
IsSubstring(k, t) == \E i \in 0..(Len(t) - Len(k)) : SubSeq(t, i + 1, i + Len(k)) = k

\* C19: after any sequence of PUT /api/ai/provider calls, the body of no
\* response of PUT /api/ai/provider or GET /api/ai/providers holds an API key
\* that is configured, whatever the length and the content of the key.
C19_NoKeyInResponse ==
    cfg.pc # "idle" /\ cfg.response.of # "none" =>
        \A p \in DOMAIN cfg.api_keys : \A t \in BodyTexts(cfg.response) :
            ~IsSubstring(cfg.api_keys[p], t)

---------------------------------------------------------------------------
(* services/style_service.py and services/grading_service.py: the selection *)
(* of a style option of a round and of a suggestion of a grading task, on    *)
(* one database session.  rows are the rows as the session sees them,        *)
(* committed the rows as of its last commit.                                 *)

MaxSelects == 3

Rounds == {"r1", "r2"}
Tasks == {"t1"}

\* the style options and the suggestions stored, with the round or the task of
\* each; is_selected is False by default (models/style.py:38, grading.py:28)
OptionRound == [o1 |-> "r1", o2 |-> "r1", o3 |-> "r1", o4 |-> "r2"]
SuggestionTask == [s1 |-> "t1", s2 |-> "t1"]

\* the ids a caller may name: those stored and one that is not
OptionIds == (DOMAIN OptionRound) \cup {"nonexistent"}
SuggestionIds == (DOMAIN SuggestionTask) \cup {"nonexistent"}

SelInit ==
    /\ sel = [pc |-> "open",
              rows |-> [options |-> [o \in DOMAIN OptionRound |-> FALSE],
                        suggestions |-> [s \in DOMAIN SuggestionTask |-> FALSE],
                        task_status |-> [t \in Tasks |-> "suggested"]],
              committed |-> [options |-> [o \in DOMAIN OptionRound |-> FALSE],
                             suggestions |-> [s \in DOMAIN SuggestionTask |-> FALSE],
                             task_status |-> [t \in Tasks |-> "suggested"]],
              calls |-> <<>>]
    /\ SanIdle /\ OpsIdle /\ PipeIdle /\ IdleExcept("sel")

\* the update that leaves the rows as they are
DeselectNone(is_selected, parent_of, parent) == is_selected

\* query(...).filter(parent == id).update({"is_selected": False}):
\* style_service.py lines 149-151, grading_service.py lines 112-114
DeselectAll(is_selected, parent_of, parent) ==
    [x \in DOMAIN is_selected |-> IF parent_of[x] = parent THEN FALSE ELSE is_selected[x]]

\* db.get(...) is None or belongs to another round or task
NotFound(parent_of, parent, id) == id \notin DOMAIN parent_of \/ parent_of[id] # parent

\* the call as the history keeps it
Call(fn, parent, id, ok) == [fn |-> fn, parent |-> parent, id |-> id, ok |-> ok]

\* StyleService.select_option, lines 147-159
select_option ==
    /\ Len(sel.calls) < MaxSelects
    /\ \E round_id \in Rounds, option_id \in OptionIds :
          LET deselected == DeselectAll(sel.rows.options, OptionRound, round_id) IN
          IF NotFound(OptionRound, round_id, option_id)
          THEN sel' = [sel EXCEPT !.rows.options = deselected,
                          !.calls = Append(@, Call("select_option", round_id, option_id, FALSE))]
          ELSE LET rows == [sel.rows EXCEPT
                              !.options = [deselected EXCEPT ![option_id] = TRUE]] IN
               sel' = [sel EXCEPT !.rows = rows, !.committed = rows,
                          !.calls = Append(@, Call("select_option", round_id, option_id, TRUE))]
    /\ UNCHANGED <<sanVars, opVars, pipeVars, loc, ext, prev, cfg, svcVars>>

\* GradingService.select_suggestion, lines 111-125
select_suggestion ==
    /\ Len(sel.calls) < MaxSelects
    /\ \E task_id \in Tasks \cup {"t9"}, suggestion_id \in SuggestionIds :
          LET deselected == DeselectAll(sel.rows.suggestions, SuggestionTask, task_id) IN
          IF NotFound(SuggestionTask, task_id, suggestion_id)
          THEN sel' = [sel EXCEPT !.rows.suggestions = deselected,
                          !.calls = Append(@, Call("select_suggestion", task_id,
                                                   suggestion_id, FALSE))]
          ELSE LET rows == [sel.rows EXCEPT
                              !.suggestions = [deselected EXCEPT ![suggestion_id] = TRUE],
                              !.task_status = [t \in Tasks |->
                                                  IF t = task_id THEN "tuning" ELSE @[t]]] IN
               sel' = [sel EXCEPT !.rows = rows, !.committed = rows,
                          !.calls = Append(@, Call("select_suggestion", task_id,
                                                   suggestion_id, TRUE))]
    /\ UNCHANGED <<sanVars, opVars, pipeVars, loc, ext, prev, cfg, svcVars>>

SelNext == select_option \/ select_suggestion

SpecSelect == SelInit /\ [][SelNext]_vars

\* the calls of fn on the round or task parent so far, oldest first
CallsOn(fn, parent) ==
    SelectSeq(sel.calls, LAMBDA c : c.fn = fn /\ c.parent = parent)

\* the rows of parent that are selected
SelectedOf(is_selected, parent_of, parent) ==
    {x \in DOMAIN is_selected : parent_of[x] = parent /\ is_selected[x]}

\* every call of fn on parent so far succeeded, and then the one row of parent
\* that is selected, committed, is the one the latest call named
OnlyLatestSelected(fn, parent, is_selected, parent_of) ==
    LET on == CallsOn(fn, parent) IN
    (on # <<>> /\ \A i \in 1..Len(on) : on[i].ok) =>
        SelectedOf(is_selected, parent_of, parent) = {on[Len(on)].id}

\* C20: after a sequence of successful select_option calls on a round, exactly
\* one option of the round is selected, the one that the latest call named, and
\* every other option of the round is deselected; likewise for select_suggestion
\* calls on a grading task.
C20_ExactlyOneSelected ==
    sel.pc = "open" =>
        /\ \A r \in Rounds :
              OnlyLatestSelected("select_option", r, sel.committed.options, OptionRound)
        /\ \A t \in Tasks :
              OnlyLatestSelected("select_suggestion", t, sel.committed.suggestions,
                                 SuggestionTask)

\* two successful calls on round r1 named o1 and then o2: o2 alone is selected
C20_Witness ==
    /\ sel.pc = "open"
    /\ LET on == CallsOn("select_option", "r1") IN
         /\ Len(on) = 2 /\ on[1].ok /\ on[2].ok
         /\ on[1].id = "o1" /\ on[2].id = "o2"
    /\ SelectedOf(sel.committed.options, OptionRound, "r1") = {"o2"}
    /\ sel.committed.options["o4"]

---------------------------------------------------------------------------
(* services/grading_service.py: the status of the grading tasks under the   *)
(* calls of GradingService, lines 30-172.                                    *)

MaxOps == 4     \* calls of GradingService in one behaviour
MaxItems == 2   \* suggestions in one answer of the AI provider

\* the ids that uuid4 gives to the tasks, in the order of their creation
TaskIds == <<"t1", "t2">>

TaskStatuses == {"uploaded", "suggested", "tuning", "exported"}

\* the image that load_image reads for every task
Photo == [h |-> 1, w |-> 1, px |-> << <<Q \div 2, Q \div 2, Q \div 2>> >>]

\* the items that generate_grading_suggestions may hand back: a dict with
\* parameters, or one without that key
Items == {One("parameters", Dict(p)) : p \in LocalParams} \cup {One("suggestion_name", Str)}

\* the outcome of the await of line 78: an exception of the provider, or a list
AiOutcomes ==
    {[exc |-> "ValueError", items |-> <<>>]}
    \cup {[exc |-> "", items |-> a] : a \in SeqsUpTo(Items, MaxItems)}

\* the parameters of an ExportRequest, already validated
ExportParams ==
    {IdentityParams, [IdentityParams EXCEPT !.basic.exposure = 1], AllMaxParams}

\* lines 85-89 for one item: the exception that ends the pass, "" when none
SuggestionExc(item) ==
    IF ~Has(item, "parameters") THEN "KeyError"
    ELSE LET run == sanitize_ai_params(Pay(item["parameters"])) IN
         IF run.status = "raised" THEN run.exc
         ELSE IF ColorParams(run.d) # {} THEN "ValidationError"
         ELSE apply_params(Photo, ParamsFrom(run.d)).exc

RECURSIVE SuggestionLoop(_, _)
\* the loop of lines 84-99 from item i on: the exception that ends it and the
\* number of suggestions added to the session before that
SuggestionLoop(items, i) ==
    IF i > Len(items) THEN [exc |-> "", made |-> Len(items)]
    ELSE IF SuggestionExc(items[i]) # ""
         THEN [exc |-> SuggestionExc(items[i]), made |-> i - 1]
    ELSE SuggestionLoop(items, i + 1)

\* the call as the history keeps it: valid says that its arguments are those the
\* operation is meant for
TaskCall(fn, task, valid, exc) == [fn |-> fn, task |-> task, valid |-> valid, exc |-> exc]

GtInit ==
    /\ gt = [pc |-> "open", status |-> [t \in {} |-> ""], suggestions |-> {},
             calls |-> <<>>]
    /\ SanIdle /\ OpsIdle /\ PipeIdle /\ IdleExcept("gt")

\* GradingService.create_task, lines 30-41
create_task ==
    /\ Len(gt.calls) < MaxOps
    /\ Cardinality(DOMAIN gt.status) < Len(TaskIds)
    /\ LET id == TaskIds[Cardinality(DOMAIN gt.status) + 1] IN
         gt' = [gt EXCEPT
                  !.status = [t \in (DOMAIN gt.status) \cup {id} |->
                                 IF t = id THEN "uploaded" ELSE gt.status[t]],
                  !.calls = Append(@, TaskCall("create_task", id, TRUE, ""))]
    /\ UNCHANGED <<sanVars, opVars, pipeVars, loc, ext, prev, cfg, sel, sty, prov>>

\* GradingService.generate_suggestions, lines 57-105
generate_suggestions ==
    /\ Len(gt.calls) < MaxOps
    /\ \E task \in DOMAIN gt.status, ai \in AiOutcomes :
          LET loop == SuggestionLoop(ai.items, 1)
              valid == ai.exc = "" /\ \A i \in 1..Len(ai.items) : Has(ai.items[i], "parameters")
              exc == IF ai.exc # "" THEN ai.exc ELSE loop.exc
          IN IF exc # ""
             THEN gt' = [gt EXCEPT !.calls = Append(@, TaskCall("generate_suggestions",
                                                                task, valid, exc))]
             ELSE gt' = [gt EXCEPT
                           !.status[task] = "suggested",
                           !.suggestions = @ \cup {<<task, Len(gt.calls), i>> :
                                                      i \in 1..loop.made},
                           !.calls = Append(@, TaskCall("generate_suggestions",
                                                        task, valid, ""))]
    /\ UNCHANGED <<sanVars, opVars, pipeVars, loc, ext, prev, cfg, sel, sty, prov>>

\* GradingService.select_suggestion, lines 111-125, as far as the task goes
tune_suggestion ==
    /\ Len(gt.calls) < MaxOps
    /\ \E task_id \in DOMAIN gt.status,
          suggestion_id \in gt.suggestions \cup {<<"nonexistent", 0, 0>>} :
          IF suggestion_id \notin gt.suggestions \/ suggestion_id[1] # task_id
          THEN gt' = [gt EXCEPT !.calls = Append(@, TaskCall("select_suggestion", task_id,
                                                             FALSE, "ValueError"))]
          ELSE gt' = [gt EXCEPT !.status[task_id] = "tuning",
                                !.calls = Append(@, TaskCall("select_suggestion", task_id,
                                                             TRUE, ""))]
    /\ UNCHANGED <<sanVars, opVars, pipeVars, loc, ext, prev, cfg, sel, sty, prov>>

\* GradingService.export_image, lines 146-172
export_image ==
    /\ Len(gt.calls) < MaxOps
    /\ \E task \in DOMAIN gt.status, p \in ExportParams :
          LET graded == apply_params(Photo, p) IN
          IF graded.exc # ""
          THEN gt' = [gt EXCEPT !.calls = Append(@, TaskCall("export_image", task, TRUE,
                                                             graded.exc))]
          ELSE gt' = [gt EXCEPT !.status[task] = "exported",
                                !.calls = Append(@, TaskCall("export_image", task, TRUE, ""))]
    /\ UNCHANGED <<sanVars, opVars, pipeVars, loc, ext, prev, cfg, sel, sty, prov>>

GtNext == create_task \/ generate_suggestions \/ tune_suggestion \/ export_image

SpecTask == GtInit /\ [][GtNext]_vars

\* the status each operation sets
StatusSetBy ==
    [create_task |-> "uploaded", generate_suggestions |-> "suggested",
     select_suggestion |-> "tuning", export_image |-> "exported"]

\* the calls on task so far that succeeded, oldest first
SucceededOn(task) == SelectSeq(gt.calls, LAMBDA c : c.task = task /\ c.exc = "")

---------------------------------------------------------------------------
(* services/style_service.py lines 165-215: analyze_preferences on the style *)
(* sessions of one database.  selected[r] says that the query of lines        *)
(* 170-174 finds a selected option in round r.                                *)

MaxAnalyses == 3   \* calls of analyze_preferences in one behaviour

\* the rounds stored, each with its session; s2 has one round, s3 has none
RoundSession == [r1 |-> "s1", r2 |-> "s1", r3 |-> "s2"]
SessionIds == {"s1", "s2", "s3"}

\* the summary with every round of the session, selected or not
AllRoundsSummary(selected, session_id) ==
    {r \in DOMAIN RoundSession : RoundSession[r] = session_id}

\* get_selections_summary, lines 165-190: the rounds of the session that have a
\* selected option (one entry each)
get_selections_summary(selected, session_id) ==
    {r \in DOMAIN RoundSession : RoundSession[r] = session_id /\ selected[r]}

\* the call as the history keeps it
Analysis(session_id, exc, msg) == [session |-> session_id, exc |-> exc, msg |-> msg]

StyInit ==
    /\ \E selected \in [DOMAIN RoundSession -> BOOLEAN] :
          sty = [pc |-> "open", status |-> [s \in SessionIds |-> "in_progress"],
                 selected |-> selected, profiles |-> {}, ai_calls |-> 0, calls |-> <<>>]
    /\ SanIdle /\ OpsIdle /\ PipeIdle /\ IdleExcept("sty")

\* a successful select_option on a round: one of its options is selected
select_style ==
    /\ sty.pc = "open"
    /\ \E r \in DOMAIN RoundSession :
          /\ ~sty.selected[r]
          /\ sty' = [sty EXCEPT !.selected[r] = TRUE]
    /\ UNCHANGED <<sanVars, opVars, pipeVars, loc, ext, prev, cfg, sel, gt, prov>>

\* StyleService.analyze_preferences, lines 192-215; ai_exc is the exception that
\* self.ai.analyze_preferences raises, "" when it returns the profile data
analyze_preferences ==
    /\ sty.pc = "open"
    /\ Len(sty.calls) < MaxAnalyses
    /\ \E session_id \in SessionIds \cup {"nonexistent"}, ai_exc \in {"", "ValueError"} :
          LET selections == get_selections_summary(sty.selected, session_id) IN
          IF session_id \notin DOMAIN sty.status
          THEN sty' = [sty EXCEPT !.calls = Append(@, Analysis(session_id, "ValueError",
                                                               "Session not found"))]
          ELSE IF selections = {}
          THEN sty' = [sty EXCEPT !.calls = Append(@, Analysis(session_id, "ValueError",
                                                      "No selections found in session"))]
          ELSE IF ai_exc # ""
          THEN sty' = [sty EXCEPT !.ai_calls = @ + 1,
                                  !.calls = Append(@, Analysis(session_id, ai_exc, "AI"))]
          ELSE sty' = [sty EXCEPT !.ai_calls = @ + 1,
                                  !.profiles = @ \cup {[session |-> session_id,
                                                        n |-> Len(sty.calls)]},
                                  !.status[session_id] = "completed",
                                  !.calls = Append(@, Analysis(session_id, "", ""))]
    /\ UNCHANGED <<sanVars, opVars, pipeVars, loc, ext, prev, cfg, sel, gt, prov>>

StyNext == select_style \/ analyze_preferences

SpecStyle == StyInit /\ [][StyNext]_vars

\* a call of analyze_preferences ended in this step, and the call it was
Analyzed == sty'.calls # sty.calls
LastAnalysis == sty'.calls[Len(sty'.calls)]

\* a call on a stored session without a selection raises the error named and
\* leaves the AI uncalled, the profiles and the statuses as they were
NoSelectionsFails ==
    (/\ Analyzed
     /\ LastAnalysis.session \in SessionIds
     /\ \A r \in DOMAIN RoundSession :
           RoundSession[r] = LastAnalysis.session => ~sty.selected[r])
    => /\ LastAnalysis.exc = "ValueError"
       /\ LastAnalysis.msg = "No selections found in session"
       /\ sty'.ai_calls = sty.ai_calls
       /\ sty'.profiles = sty.profiles
       /\ sty'.status = sty.status

\* a status changes only from in_progress to completed, in a step in which a
\* call on that session returned and stored a profile of that session
CompletedOnlyBySuccess ==
    \A s \in SessionIds :
        sty'.status[s] # sty.status[s] =>
            /\ sty.status[s] = "in_progress" /\ sty'.status[s] = "completed"
            /\ Analyzed /\ LastAnalysis.session = s /\ LastAnalysis.exc = ""
            /\ \E p \in sty'.profiles \ sty.profiles : p.session = s

\* C22: analyze_preferences on a session in which no round has a selected
\* option fails with the error 'No selections found in session' without calling
\* the AI provider, storing a profile or changing the session status; a
\* session's status changes from 'in_progress' to 'completed' only when
\* analyze_preferences succeeds and its profile has been stored.
C22_AnalyzeNeedsSelections ==
    [][sty.pc = "open" => (NoSelectionsFails /\ CompletedOnlyBySuccess)]_vars

\* a call on s1 without a selection failed, and after a selection a later call
\* on s1 completed it, while s2 is still in progress
C22_Witness ==
    /\ sty.pc = "open"
    /\ Len(sty.calls) = 2
    /\ sty.calls[1] = Analysis("s1", "ValueError", "No selections found in session")
    /\ sty.calls[2] = Analysis("s1", "", "")
    /\ sty.status["s1"] = "completed" /\ sty.status["s2"] = "in_progress"
    /\ sty.ai_calls = 1 /\ Cardinality(sty.profiles) = 1

---------------------------------------------------------------------------
(* Single image operations, continued: saturation, vignette and the HSL      *)
(* bands (SpecOps).                                                           *)

\* C23: adjust_saturation with amount = -100 produces a fully gray image: for
\* every input image and every pixel the three output channels are equal to
\* each other and to the pixel's BT.709 luminance clamped to [0, 1].
C23_DesaturatedIsGray ==
    (opName = "saturation" /\ opArg = -200) =>
        /\ opExc = ""
        /\ opOut.h = image.h /\ opOut.w = image.w /\ Len(opOut.px) = Len(image.px)
        /\ \A i \in 1..Len(opOut.px) :
              /\ opOut.px[i][1] = opOut.px[i][2] /\ opOut.px[i][2] = opOut.px[i][3]
              /\ opOut.px[i][1] = Clamp01(Luminance(image.px[i]))

\* a red pixel beside a white one came back as two grays of different value
C23_Witness ==
    /\ opName = "saturation" /\ opArg = -200
    /\ image = [h |-> 1, w |-> 2, px |-> << <<(4 * Q) \div 5, 0, 0>>, <<Q, Q, Q>> >>]
    /\ opOut.px[1] = <<170, 170, 170>>
    /\ opOut.px[2][1] = opOut.px[2][2] /\ opOut.px[2][1] > 170

\* every pixel of img has the same three equal channel values, above 0
IsUniformGray(img) ==
    /\ img.px # <<>>
    /\ \A i \in 1..Len(img.px) : img.px[i] = img.px[1]
    /\ img.px[1][1] = img.px[1][2] /\ img.px[1][2] = img.px[1][3]
    /\ img.px[1][1] > 0

\* four times the squared distance of pixel i from (h / 2, w / 2): dist ** 2 of
\* line 424 but for the division by max_dist ** 2
Dist2(img, i) ==
    LET x == (i - 1) % img.w
        y == (i - 1) \div img.w IN
    (2 * x - img.w) * (2 * x - img.w) + (2 * y - img.h) * (2 * y - img.h)

\* the top-left pixel, of distance 1, and the pixel at row h // 2, column w // 2
CornerPx(img) == 0 * img.w + 0 + 1
CenterPx(img) == (img.h \div 2) * img.w + (img.w \div 2) + 1

BandIndex(name) == CHOOSE i \in 1..Len(HSL_RANGES) : HSL_RANGES[i].name = name

\* the hue that the pass of band i reads (line 302): the hue of the pixel p after
\* the passes of the bands before i
HueAtBand(p, hsl_params, i) ==
    HslBands(RgbToHsl(p),
             [c \in DOMAIN hsl_params |->
                 IF BandIndex(c) < i THEN hsl_params[c] ELSE HslZero], 1)[1]

\* max(0, 1 - d / width) of the circular distance d between h modulo 360 and center
TriangularWeight(h, center, width) ==
    LET dh == Abs((h % 360) - center)
        d == Min(dh, 360 - dh) IN
    Max(0, Q - (d * Q) \div width)

\* C25: in adjust_hsl the weight of every band that the loop processes is, for
\* every pixel, the triangular function max(0, 1 - d/width) of the circular
\* distance d between the pixel's hue, taken modulo 360, and the band center: it
\* lies in [0, 1] and is 0 at distance >= width, also for a band processed after
\* an earlier band has shifted the hue by up to 180 degrees.
C25_TriangularWeight ==
    opName = "hsl" =>
        \A i \in 1..Len(image.px) : \A k \in 1..Len(HSL_RANGES) :
            opArg[HSL_RANGES[k].name] # HslZero =>
                LET h == HueAtBand(image.px[i], opArg, k)
                    weight == HslWeight(h, HSL_RANGES[k].center, HSL_RANGES[k].width) IN
                /\ weight \in 0..Q
                /\ weight = TriangularWeight(h, HSL_RANGES[k].center, HSL_RANGES[k].width)


---------------------------------------------------------------------------
(* The sanitizer applied to its own result.                                 *)

\* the number x lies in lo..hi and y is the same number
KeptIfWithin(x, y, lo, hi) == (Kind(x) = "num" /\ Pay(x) \in lo..hi) => y = x

\* the range that sanitize_ai_params leaves a declared field in: the rule's, cut
\* by effects["grain"] = 0 and by the caps of clarity and dehaze
EnforcedRange(rule) ==
    IF rule.sec # "effects" THEN [lo |-> rule.lo, hi |-> rule.hi]
    ELSE CASE rule.key = "grain"   -> [lo |-> 0, hi |-> 0]
           [] rule.key = "clarity" -> [lo |-> -60, hi |-> 60]
           [] rule.key = "dehaze"  -> [lo |-> -40, hi |-> 50]
           [] OTHER                -> [lo |-> rule.lo, hi |-> rule.hi]

\* the range of the rule itself
DeclaredRange(rule) == [lo |-> rule.lo, hi |-> rule.hi]

\* the declared fields of d, with the values of d and of e for each
FieldPairs(d, e) ==
    {<<CLAMP_RULES[i], Pay(d[CLAMP_RULES[i].sec])[CLAMP_RULES[i].key],
                       Pay(e[CLAMP_RULES[i].sec])[CLAMP_RULES[i].key]>> :
        i \in {j \in 1..Len(CLAMP_RULES) :
                 /\ Has(d, CLAMP_RULES[j].sec) /\ IsDict(d[CLAMP_RULES[j].sec])
                 /\ Has(Pay(d[CLAMP_RULES[j].sec]), CLAMP_RULES[j].key)}}

\* the components of the channels of the section sec of d (hsl, split_toning),
\* with the values of d and of e for each
ChannelPairs(d, e, sec, fields) ==
    IF ~(Has(d, sec) /\ IsDict(d[sec])) THEN {}
    ELSE UNION {{<<f, Pay(Pay(d[sec])[ch])[f.key], Pay(Pay(e[sec])[ch])[f.key]>> :
                    f \in {g \in fields : Has(Pay(Pay(d[sec])[ch]), g.key)}} :
                ch \in {c \in DOMAIN Pay(d[sec]) :
                          IsDict(Pay(d[sec])[c]) /\ (sec = "hsl" \/ c \in {"highlights", "midtones", "shadows"})}}

\* the coordinates of the curves of d whose elements are all points, with the
\* values of d and of e for each
CoordPairs(d, e) ==
    IF ~(Has(d, "tone_curve") /\ IsDict(d["tone_curve"])) THEN {}
    ELSE LET tc == Pay(d["tone_curve"])
             te == Pay(e["tone_curve"]) IN
         UNION {{<<Pay(Pay(tc[k])[i])[c], Pay(Pay(te[k])[i])[c]>> :
                    i \in 1..Len(Pay(tc[k])), c \in 1..2} :
                k \in {key \in DOMAIN tc :
                         /\ key \in {"points", "red", "green", "blue"}
                         /\ IsList(tc[key])
                         /\ \A i \in 1..Len(Pay(tc[key])) : KeepsPoint(Pay(tc[key])[i])}}

\* sanitize_ai_params(san) returns san
SecondRunChangesNothing ==
    LET again == sanitize_ai_params(san) IN
    again.status = "ok" /\ again.d = san

\* C26: sanitize_ai_params is idempotent: whenever it returns, applying it again
\* to its result returns and changes nothing; and a number that already lies in
\* the range the function enforces for its field (the declared range, cut to 0
\* for grain, to [-30, 30] for clarity and to [-20, 25] for dehaze; the whole
\* numbers of [0, 255] for a curve coordinate) has the same value afterwards.
C26_SanitizeIdempotent ==
    sanSt = "returned" =>
        /\ SecondRunChangesNothing
        /\ \A t \in FieldPairs(raw, san) :
              KeptIfWithin(t[2], t[3], EnforcedRange(t[1]).lo, EnforcedRange(t[1]).hi)
        /\ \A t \in ChannelPairs(raw, san, "hsl", HSLChannelFields)
                    \cup ChannelPairs(raw, san, "split_toning", SplitToneChannelFields) :
              KeptIfWithin(t[2], t[3], t[1].lo, t[1].hi)
        /\ \A t \in CoordPairs(raw, san) :
              (Kind(t[1]) = "num" /\ Pay(t[1]) % 2 = 0) => KeptIfWithin(t[1], t[2], 0, 510)

\* a returned run on an effects mapping whose clarity of 22.5 lies within the cap
\* and is kept while the dehaze of 100.5 is cut to 25
C26_Witness ==
    /\ sanSt = "returned"
    /\ raw = One("effects", Dict(Two("clarity", Num(45), "dehaze", Num(201))))
    /\ Pay(san["effects"])["clarity"] = Num(45)
    /\ Pay(san["effects"])["dehaze"] = Num(50)
    /\ SecondRunChangesNothing

\* the same with the declared range of every field (for a curve coordinate every
\* number of [0, 255]): a value inside its declared range keeps its value
C26_DeclaredRangeKept ==
    sanSt = "returned" =>
        /\ SecondRunChangesNothing
        /\ \A t \in FieldPairs(raw, san) :
              KeptIfWithin(t[2], t[3], DeclaredRange(t[1]).lo, DeclaredRange(t[1]).hi)
        /\ \A t \in ChannelPairs(raw, san, "hsl", HSLChannelFields)
                    \cup ChannelPairs(raw, san, "split_toning", SplitToneChannelFields) :
              KeptIfWithin(t[2], t[3], t[1].lo, t[1].hi)
        /\ \A t \in CoordPairs(raw, san) : KeptIfWithin(t[1], t[2], 0, 510)


\* the points of the curve `key` of an accepted dict, as _build_lut reads them
PointsIn(d, key) ==
    [i \in 1..Len(CurveOf(d, key)) |->
        <<Pay(Pay(CurveOf(d, key)[i])[1]) \div 2, Pay(Pay(CurveOf(d, key)[i])[2]) \div 2>>]

\* C27: every tone curve (master or per channel) of a dict that sanitize_ai_params
\* returned and ColorParams accepted has, after sorting by x, strictly increasing
\* x-coordinates, so that the spline construction of _build_lut cannot fail on it.
C27_StrictlyIncreasingX ==
    valSt = "ok" =>
        \A key \in {"points", "red", "green", "blue"} :
            HasCurveList(san, key) => ~LutRaises(PointsIn(san, key))


---------------------------------------------------------------------------
(* The provider configuration of api/ai_config.py: the module-level          *)
(* _current_provider, _current_model, _current_base_url and _api_keys,       *)
(* written by set_provider (a def endpoint, run on a worker thread of the    *)
(* server) and read by get_current_provider (called from the async           *)
(* endpoints). No lock guards them, so the calls interleave statement by     *)
(* statement. prov.name_by, model_by and base_by hold the number of the      *)
(* set_provider call that wrote each global (0 for the module's own          *)
(* assignment), base_for the provider of the call that supplied the base     *)
(* URL ("startup" for the one read from the settings).                       *)

MaxSets == 2
MaxGets == 1

\* the worker threads that may each run one set_provider call at a time
SetThreads == {"w1", "w2"}

\* AIProviderFactory.available_providers(), two of the three OpenAI-compatible
\* ones, and a name that is not registered
Available == {"claude", "openai", "deepseek"}
Compatible == {"openai", "deepseek", "glm"}

\* ProviderConfig: "None" stands for a field left out
ProviderConfigs ==
    [provider : {"openai", "deepseek"}, api_key : {"key"},
     model : {"None", "model"}, base_url : {"None", "url"}]
    \cup {[provider |-> "claude", api_key |-> "None", model |-> "model", base_url |-> "None"],
          [provider |-> "bogus", api_key |-> "key", model |-> "None", base_url |-> "None"]}

NoConfig == [provider |-> "None", api_key |-> "None", model |-> "None", base_url |-> "None"]
IdleSetter == [at |-> "idle", id |-> 0, config |-> NoConfig]
IdleGetter == [at |-> "idle", key_of |-> "None", base_url |-> "None", base_for |-> "None"]
NotBuilt == [kind |-> "none", name |-> "None", name_by |-> 0, model |-> "None", model_by |-> 0,
             base_url |-> "None", base_for |-> "None", key_of |-> "None", raced |-> FALSE]

\* lines 19-24 and _init_keys: the globals as the module sets them from the settings
ProvInit ==
    /\ \E url \in {"None", "url"}, keys \in {{}, {"openai"}} :
          prov = [pc |-> "open",
                  name |-> "openai", name_by |-> 0,
                  model |-> "None", model_by |-> 0,
                  base_url |-> url, base_by |-> 0, base_for |-> "startup",
                  keys |-> keys,
                  nsets |-> 0, ngets |-> 0, raced |-> FALSE,
                  setter |-> [t \in SetThreads |-> IdleSetter],
                  getter |-> IdleGetter,
                  built |-> NotBuilt]
    /\ SanIdle /\ OpsIdle /\ PipeIdle /\ IdleExcept("prov")

ProvUnchanged == UNCHANGED <<sanVars, opVars, pipeVars, loc, ext, prev, cfg, sel, gt, sty>>

\* some call is between its first and its last statement
InProgress(p) == p.getter.at # "idle" \/ \E t \in SetThreads : p.setter[t].at # "idle"

\* set_provider, lines 93-97: the check of the name; an unknown one is refused
set_provider_check ==
    /\ prov.pc = "open"
    /\ prov.nsets < MaxSets
    /\ \E t \in SetThreads, config \in ProviderConfigs :
          /\ prov.setter[t].at = "idle"
          /\ prov' = [prov EXCEPT
                 !.nsets = @ + 1,
                 !.raced = @ \/ InProgress(prov),
                 !.setter[t] = IF config.provider \notin Available THEN IdleSetter
                               ELSE [at |-> "l98", id |-> prov.nsets + 1, config |-> config]]
    /\ ProvUnchanged

\* line 98: _current_provider = config.provider
set_provider_name ==
    /\ prov.pc = "open"
    /\ \E t \in SetThreads :
          /\ prov.setter[t].at = "l98"
          /\ prov' = [prov EXCEPT !.name = prov.setter[t].config.provider,
                                  !.name_by = prov.setter[t].id,
                                  !.setter[t].at = "l99"]
    /\ ProvUnchanged

\* line 99: _current_model = config.model
set_provider_model ==
    /\ prov.pc = "open"
    /\ \E t \in SetThreads :
          /\ prov.setter[t].at = "l99"
          /\ prov' = [prov EXCEPT !.model = prov.setter[t].config.model,
                                  !.model_by = prov.setter[t].id,
                                  !.setter[t].at = "l101"]
    /\ ProvUnchanged

\* lines 101-111: the key of the provider, when one is given
set_provider_api_key ==
    /\ prov.pc = "open"
    /\ \E t \in SetThreads :
          /\ prov.setter[t].at = "l101"
          /\ prov' = [prov EXCEPT
                 !.keys = IF prov.setter[t].config.api_key # "None"
                          THEN @ \cup {prov.setter[t].config.provider} ELSE @,
                 !.setter[t].at = "l112"]
    /\ ProvUnchanged

\* lines 112-114: the base URL, when one is given; the call returns
set_provider_base_url ==
    /\ prov.pc = "open"
    /\ \E t \in SetThreads :
          /\ prov.setter[t].at = "l112"
          /\ LET config == prov.setter[t].config IN
             prov' = [prov EXCEPT
                 !.base_url = IF config.base_url # "None" THEN config.base_url ELSE @,
                 !.base_by = IF config.base_url # "None" THEN prov.setter[t].id ELSE @,
                 !.base_for = IF config.base_url # "None" THEN config.provider ELSE @,
                 !.setter[t] = IdleSetter]
    /\ ProvUnchanged

\* get_current_provider, lines 119-124: the key of the current provider; without
\* one the call ends with HTTPException
get_provider_api_key ==
    /\ prov.pc = "open"
    /\ prov.ngets < MaxGets
    /\ prov.getter.at = "idle"
    /\ prov' = [prov EXCEPT
           !.ngets = @ + 1,
           !.raced = @ \/ InProgress(prov),
           !.getter = IF prov.name \in prov.keys
                      THEN [IdleGetter EXCEPT !.at = "l125", !.key_of = prov.name]
                      ELSE IdleGetter,
           !.built = IF prov.name \in prov.keys THEN NotBuilt
                     ELSE [NotBuilt EXCEPT !.kind = "HTTPException"]]
    /\ ProvUnchanged

\* line 125: the base URL, for the OpenAI-compatible providers only
get_provider_base_url ==
    /\ prov.pc = "open"
    /\ prov.getter.at = "l125"
    /\ prov' = [prov EXCEPT
           !.getter.at = "l126",
           !.getter.base_url = IF prov.name \in Compatible THEN prov.base_url ELSE "None",
           !.getter.base_for = IF prov.name \in Compatible THEN prov.base_for ELSE "None"]
    /\ ProvUnchanged

\* line 126: AIProviderFactory.get_provider(_current_provider, api_key,
\* _current_model, base_url)
get_provider_build ==
    /\ prov.pc = "open"
    /\ prov.getter.at = "l126"
    /\ prov' = [prov EXCEPT
           !.getter = IdleGetter,
           !.built = [kind |-> "provider",
                      name |-> prov.name, name_by |-> prov.name_by,
                      model |-> prov.model, model_by |-> prov.model_by,
                      base_url |-> prov.getter.base_url, base_for |-> prov.getter.base_for,
                      key_of |-> prov.getter.key_of, raced |-> prov.raced]]
    /\ ProvUnchanged

ProvNext ==
    \/ set_provider_check \/ set_provider_name \/ set_provider_model
    \/ set_provider_api_key \/ set_provider_base_url
    \/ get_provider_api_key \/ get_provider_base_url \/ get_provider_build

SpecProvider == ProvInit /\ [][ProvNext]_vars

\* C28: under any interleaving of set_provider and get_current_provider calls, the
\* provider that get_current_provider builds uses a provider name and a model
\* that were written by the same set_provider call (or are both the startup ones).
C28_NameAndModelSetTogether ==
    (prov.pc = "open" /\ prov.built.kind = "provider") =>
        prov.built.name_by = prov.built.model_by


\* without overlapping calls the name and the model come from the same call
SequentialNameAndModel ==
    (prov.pc = "open" /\ prov.built.kind = "provider" /\ ~prov.built.raced) =>
        prov.built.name_by = prov.built.model_by

\* C29: after any sequence of set_provider calls (none overlapping another call),
\* a base URL that get_current_provider passes to the provider it builds was
\* supplied by a set_provider call for that same provider or is the startup
\* default: a URL given for one OpenAI-compatible provider is never used to
\* build another one.
C29_BaseUrlOfSameProvider ==
    (prov.pc = "open" /\ prov.built.kind = "provider" /\ ~prov.built.raced
        /\ prov.built.base_url # "None") =>
            prov.built.base_for \in {prov.built.name, "startup"}


---------------------------------------------------------------------------
(* Failed selections on the database session of SpecSelect.                 *)

\* the id named by the latest successful call of the sequence `on`, "None" when
\* no call of it succeeded
RECURSIVE LatestOk(_)
LatestOk(on) ==
    IF on = <<>> THEN "None"
    ELSE IF on[Len(on)].ok THEN on[Len(on)].id
    ELSE LatestOk(SubSeq(on, 1, Len(on) - 1))

\* the latest call of fn on parent failed after an earlier one had succeeded, and
\* the row that the successful one selected is still the selected one, committed
FailureKeepsSelection(fn, parent, is_selected, parent_of) ==
    LET on == CallsOn(fn, parent) IN
    (on # <<>> /\ ~on[Len(on)].ok /\ LatestOk(on) # "None") =>
        SelectedOf(is_selected, parent_of, parent) = {LatestOk(on)}

\* C30: a select_option (select_suggestion) call that fails because the id is
\* unknown or belongs to another round (task) leaves the persisted selection as
\* it was: the option selected before the call is still selected, in the rows
\* committed, after the call and after every later commit on the same session.
C30_FailedSelectKeepsSelection ==
    sel.pc = "open" =>
        /\ \A r \in Rounds :
              FailureKeepsSelection("select_option", r, sel.committed.options, OptionRound)
        /\ \A t \in Tasks :
              FailureKeepsSelection("select_suggestion", t, sel.committed.suggestions,
                                    SuggestionTask)

\* the same right after the failing call, before any later commit
FailedSelectNotCommittedYet ==
    (sel.pc = "open" /\ sel.calls # <<>> /\ ~sel.calls[Len(sel.calls)].ok) =>
        C30_FailedSelectKeepsSelection

====
